---------------------------- MODULE Spec2Model ----------------------------
(***************************************************************************)
(* Auto-materialize rule evaluation (dagster/_core/definitions/            *)
(* auto_materialize_rule.py).                                              *)
(*                                                                         *)
(* One entity (asset) is evaluated tick by tick against a policy made of   *)
(* materialize rules (cron, missing), a skip rule (backfill in progress)   *)
(* and the discard rule (max materializations exceeded).  Between ticks    *)
(* the clock advances, partitions get materialized, the partition scheme   *)
(* changes and backfills start or stop.                                    *)
(*                                                                         *)
(* Partition keys are the integers 1..MaxKey; NoKey stands for Python's    *)
(* None (the implicit partition of an unpartitioned entity).  A subset of  *)
(* one entity is the set of its keys.  Time is an integer; the time        *)
(* partition k covers the window [(k-1)*Width, k*Width).  A cron schedule  *)
(* is its period: its ticks are the multiples of the period.               *)
(***************************************************************************)
EXTENDS Integers, Sequences, FiniteSets, TLC

VARIABLES
    now,            \* context.evaluation_time of the tick being prepared
    pdef,           \* context.partitions_def: the entity's current scheme
    materialized,   \* keys having a materialization record
    matSince,       \* keys materialized since the previous tick
    backfill,       \* keys of this entity targeted by the active backfill
    policy,         \* the rules of the entity's policy
    prev,           \* the persisted evaluation state of the latest tick
    pc,             \* "evaluated" right after a tick, "idle" otherwise
    call,           \* the latest direct call of a rule's method, with its result
    is_root,        \* the entity has no materializable or observable parent
    parentUpd,      \* keys with a parent updated since the previous tick
                    \* or updating on the coming tick
    history,        \* what an observer records of the ticks: the keys a run
                    \* was ever requested for, the keys that came to exist
                    \* between the last two ticks
    pass            \* the driver's pass over the entities of a graph: the
                    \* entities evaluated so far, the partitions to request,
                    \* the will-update answers given to rules

vars == <<now, pdef, materialized, matSince, backfill, policy, prev, pc, call,
          is_root, parentUpd, history, pass>>

----------------------------------------------------------------------------
(* Bounds *)

MaxKey == 3
MaxTime == 5
MaxLimit == 2

(* Width of one time partition, in time units. *)
Width == 2

NoKey == 0
Keys == 1..MaxKey
Times == 0..MaxTime

----------------------------------------------------------------------------
(* Partition schemes and the subset algebra *)

(* partitions_def is None (unpartitioned), a scheme without a time          *)
(* dimension (static or dynamic keys, possibly none yet), or a time-window *)
(* scheme over a range of windows.                                         *)
NoneDef == [kind |-> "none", keys |-> {NoKey}]
StaticDefs == {[kind |-> "static", keys |-> 1..hi] : hi \in 0..MaxKey}
TimeDefs == {[kind |-> "time", keys |-> lo..MaxKey] : lo \in 1..(MaxKey - 1)}
Schemes == {NoneDef} \cup StaticDefs \cup TimeDefs

SetMax(S) == CHOOSE x \in S : \A y \in S : y <= x

(* partitions_def.get_partition_keys(current_time=...) *)
get_partition_keys(pd) == pd.keys

(* AssetSubset.all: every partition existing under the scheme. *)
AllSubset(pd) == get_partition_keys(pd)

(* AssetSubset.as_valid: members that no longer exist are dropped. *)
as_valid(S, pd) == S \cap get_partition_keys(pd)

(* AssetSubset.inverse: complement within the current partition space. *)
inverse(S, pd) == get_partition_keys(pd) \ S

(* AssetSubset.from_asset_partitions_set: the subset holding the given     *)
(* entity-partitions (it does not look the keys up in the scheme).         *)
from_asset_partitions_set(pd, aps) == aps

(* get_last_partition_key without current_time: the last key, None if      *)
(* the scheme holds no key.                                                *)
get_last_partition_key(pd) ==
    IF pd.keys = {} THEN NoKey ELSE SetMax(pd.keys)

(* time_partitions_def.get_last_partition_key(current_time=t): the most    *)
(* recent partition whose window has ended by t; None if there is none.    *)
get_last_partition_key_at(pd, t) ==
    LET done == {k \in pd.keys : k * Width <= t}
    IN  IF done = {} THEN NoKey ELSE SetMax(done)

(* get_time_partitions_def(pd) is not None *)
has_time_partitions_def(pd) == pd.kind = "time"

----------------------------------------------------------------------------
(* Cron schedules *)

IsCronTick(cron, t) == t % cron = 0

(* next(reverse_cron_string_iterator(end_timestamp=t)): the latest tick    *)
(* strictly before t.                                                      *)
reverse_cron_string_iterator(cron, t) == ((t - 1) \div cron) * cron

(* first element of cron_string_iterator(start_timestamp=t): the earliest  *)
(* tick after t.                                                           *)
cron_string_iterator(cron, t) == ((t \div cron) + 1) * cron

(* the element following tick dt in cron_string_iterator *)
cron_string_iterator_next(cron, dt) == dt + cron

----------------------------------------------------------------------------
(* MaterializeOnCronRule *)

RECURSIVE missed_ticks_loop_late_break(_, _, _)
(* the loop testing a tick against the evaluation time only after it has   *)
(* been appended                                                           *)
missed_ticks_loop_late_break(cron, dt, evaluation_time) ==
    <<dt>> \o (IF dt > evaluation_time
               THEN <<>>
               ELSE missed_ticks_loop_late_break(
                        cron, cron_string_iterator_next(cron, dt),
                        evaluation_time))

RECURSIVE missed_ticks_loop(_, _, _)
(* the for loop of missed_cron_ticks: collect the ticks dt of the iterator *)
(* until one lies after the evaluation time.                               *)
missed_ticks_loop(cron, dt, evaluation_time) ==
    IF dt > evaluation_time
    THEN <<>>
    ELSE <<dt>> \o missed_ticks_loop(cron, cron_string_iterator_next(cron, dt),
                                     evaluation_time)

(* `not context.previous_evaluation_timestamp`: None or zero *)
no_previous_timestamp(ctx) ==
    \/ ~ctx.has_previous_evaluation_state
    \/ ctx.previous_evaluation_timestamp = 0

(* the method taking every evaluation for the first one *)
missed_cron_ticks_latest_only(rule, ctx) ==
    <<reverse_cron_string_iterator(rule.cron_schedule, ctx.evaluation_time)>>

missed_cron_ticks(rule, ctx) ==
    IF no_previous_timestamp(ctx)
    THEN <<reverse_cron_string_iterator(rule.cron_schedule, ctx.evaluation_time)>>
    ELSE missed_ticks_loop(rule.cron_schedule,
             cron_string_iterator(rule.cron_schedule,
                                  ctx.previous_evaluation_timestamp),
             ctx.evaluation_time)

(* the time-partitioned branch asking for the last partition as of the    *)
(* evaluation time instead of as of each missed tick                       *)
get_new_asset_partitions_as_of_now(rule, ctx) ==
    LET missed_ticks == missed_cron_ticks(rule, ctx)
        pd == ctx.partitions_def
    IN  IF missed_ticks = <<>> THEN {}
        ELSE IF pd.kind = "none" THEN {NoKey}
        ELSE IF rule.all_partitions THEN get_partition_keys(pd)
        ELSE IF ~has_time_partitions_def(pd) THEN {get_last_partition_key(pd)}
        ELSE {get_last_partition_key_at(pd, ctx.evaluation_time)} \ {NoKey}

get_new_asset_partitions_to_request(rule, ctx) ==
    LET missed_ticks == missed_cron_ticks(rule, ctx)
        pd == ctx.partitions_def
    IN  IF missed_ticks = <<>> THEN {}
        ELSE IF pd.kind = "none" THEN {NoKey}
        ELSE IF rule.all_partitions THEN get_partition_keys(pd)
        ELSE IF ~has_time_partitions_def(pd) THEN {get_last_partition_key(pd)}
        ELSE {get_last_partition_key_at(pd, missed_ticks[i]) :
                  i \in DOMAIN missed_ticks} \ {NoKey}

(* the rule excluding the handled partitions from all it selects *)
MaterializeOnCronRule_excluding_new(rule, ctx) ==
    (from_asset_partitions_set(ctx.partitions_def,
                               get_new_asset_partitions_to_request(rule, ctx))
     \cup as_valid(ctx.previous_true_subset, ctx.partitions_def))
    \ ctx.materialized_requested_or_discarded_since_previous_tick_subset

(* the rule forgetting what it selected on the previous tick *)
MaterializeOnCronRule_without_carry(rule, ctx) ==
    from_asset_partitions_set(ctx.partitions_def,
                              get_new_asset_partitions_to_request(rule, ctx))

MaterializeOnCronRule_evaluate(rule, ctx) ==
    from_asset_partitions_set(ctx.partitions_def,
                              get_new_asset_partitions_to_request(rule, ctx))
    \cup (as_valid(ctx.previous_true_subset, ctx.partitions_def)
          \ ctx.materialized_requested_or_discarded_since_previous_tick_subset)

----------------------------------------------------------------------------
(* MaterializeOnMissingRule *)

(* the handled subset without the partitions requested on the last tick *)
get_handled_subset_without_requested(ctx) ==
    LET previous_handled_subset ==
            IF ctx.has_previous_evaluation_state /\ ctx.has_extra_state
            THEN ctx.extra_state
            ELSE ctx.materialized_asset_subset
    IN  ctx.materialized_since_previous_tick_subset
        \cup previous_handled_subset

(* the handled subset made of the materialized subset on every tick *)
get_handled_subset_forgetting_carried(ctx) ==
    LET previous_handled_subset == ctx.materialized_asset_subset
    IN  ctx.materialized_since_previous_tick_subset
        \cup ctx.previous_tick_requested_subset
        \cup previous_handled_subset

get_handled_subset(ctx) ==
    LET previous_handled_subset ==
            IF ctx.has_previous_evaluation_state /\ ctx.has_extra_state
            THEN ctx.extra_state
            ELSE ctx.materialized_asset_subset
    IN  ctx.materialized_since_previous_tick_subset
        \cup ctx.previous_tick_requested_subset
        \cup previous_handled_subset

(* the rule keeping track of the unhandled partitions instead: what was   *)
(* unhandled on the previous tick and has not been handled since           *)
MaterializeOnMissingRule_tracking_unhandled(ctx) ==
    (IF ctx.has_previous_evaluation_state
     THEN ctx.previous_true_subset ELSE ctx.candidate_subset)
    \ as_valid(get_handled_subset(ctx), ctx.partitions_def)

(* the rule forgetting, on an entity with parents, its previous true subset *)
MaterializeOnMissingRule_without_previous(ctx) ==
    IF ctx.is_root
    THEN LET handled_subset == get_handled_subset(ctx)
         IN  IF Cardinality(handled_subset) > 0
             THEN ctx.candidate_subset
                  \cap inverse(as_valid(handled_subset, ctx.partitions_def),
                               ctx.partitions_def)
             ELSE ctx.candidate_subset
    ELSE from_asset_partitions_set(ctx.partitions_def,
             {ap \in ctx.candidate_parent_has_or_will_update_subset :
                  ap \notin ctx.has_materialization_or_observation})
         \ ctx.previous_tick_requested_subset

(* the true subset of the rule *)
MaterializeOnMissingRule_evaluate(ctx) ==
    IF ctx.is_root
    THEN LET handled_subset == get_handled_subset(ctx)
         IN  IF Cardinality(handled_subset) > 0
             THEN ctx.candidate_subset
                  \cap inverse(as_valid(handled_subset, ctx.partitions_def),
                               ctx.partitions_def)
             ELSE ctx.candidate_subset
    ELSE (from_asset_partitions_set(ctx.partitions_def,
              {ap \in ctx.candidate_parent_has_or_will_update_subset :
                   ap \notin ctx.has_materialization_or_observation})
          \cup ctx.previous_true_subset)
         \ ctx.previous_tick_requested_subset

(* whether get_handled_subset asks the instance for the all-time           *)
(* materialized subset: the carried extra state is None or there is no     *)
(* previous evaluation state                                               *)
get_handled_subset_queries(ctx) ==
    ~(ctx.has_previous_evaluation_state /\ ctx.has_extra_state)

(* the rule carrying nothing forward *)
MaterializeOnMissingRule_without_extra_state(ctx) ==
    [has |-> FALSE, value |-> {}]

(* the extra state of the rule: [has |-> FALSE] stands for None *)
MaterializeOnMissingRule_extra_state(ctx) ==
    IF ctx.is_root
    THEN [has |-> TRUE, value |-> get_handled_subset(ctx)]
    ELSE [has |-> FALSE, value |-> {}]

----------------------------------------------------------------------------
(* SkipOnBackfillInProgressRule *)

(* the rule without its all_partitions branch *)
SkipOnBackfill_targeted_only(rule, ctx) ==
    ctx.candidate_subset \cap as_valid(ctx.backfill_target_subset,
                                       ctx.partitions_def)

(* the rule skipping the whole entity whatever its flag says *)
SkipOnBackfill_whole_entity(rule, ctx) ==
    IF Cardinality(as_valid(ctx.backfill_target_subset,
                            ctx.partitions_def)) = 0
    THEN {}
    ELSE ctx.candidate_subset

SkipOnBackfillInProgressRule_evaluate(rule, ctx) ==
    LET backfilling_subset == as_valid(ctx.backfill_target_subset,
                                       ctx.partitions_def)
    IN  IF Cardinality(backfilling_subset) = 0 THEN {}
        ELSE IF rule.all_partitions THEN ctx.candidate_subset
        ELSE ctx.candidate_subset \cap backfilling_subset

----------------------------------------------------------------------------
(* DiscardOnMaxMaterializationsExceededRule *)

(* sort_key_for_asset_partition: topological position of the entity, then  *)
(* the partition key; one entity is evaluated, so the key decides.         *)
sort_key_for_asset_partition(ap) == ap

RECURSIVE insert_sorted(_, _)
(* x placed after the elements of the sorted s whose key is not larger *)
insert_sorted(s, x) ==
    IF s = <<>> THEN <<x>>
    ELSE IF sort_key_for_asset_partition(x) < sort_key_for_asset_partition(Head(s))
         THEN <<x>> \o s
         ELSE <<Head(s)>> \o insert_sorted(Tail(s), x)

RECURSIVE sorted(_)
(* Python's sorted(iterable, key=...): stable, ascending *)
sorted(s) ==
    IF s = <<>> THEN <<>>
    ELSE insert_sorted(sorted(SubSeq(s, 1, Len(s) - 1)), s[Len(s)])

Range(s) == {s[i] : i \in DOMAIN s}

(* the orders in which a set may be iterated *)
IterationOrders(S) ==
    {s \in [1..Cardinality(S) -> S] : Range(s) = S}

RECURSIVE Ascending(_)
Ascending(S) ==
    IF S = {} THEN <<>>
    ELSE LET m == SetMax(S) IN Append(Ascending(S \ {m}), m)

RECURSIVE Descending(_)
Descending(S) ==
    IF S = {} THEN <<>>
    ELSE LET m == SetMax(S) IN <<m>> \o Descending(S \ {m})

(* the rule ranking every partition of the entity, not the candidates *)
Discard_over_all_partitions(rule, candidates) ==
    LET ordered == sorted(Ascending(Keys))
    IN  Range(SubSeq(ordered, rule.limit + 1, Len(ordered)))

(* the rule slicing the candidates as iterated, unsorted *)
Discard_unsorted(rule, candidates) ==
    Range(SubSeq(candidates, rule.limit + 1, Len(candidates)))

(* candidates is context.candidate_subset.asset_partitions in the order    *)
(* the set happens to be iterated.                                         *)
DiscardOnMaxMaterializationsExceededRule_evaluate(rule, candidates) ==
    LET ordered == sorted(candidates)
    IN  Range(SubSeq(ordered, rule.limit + 1, Len(ordered)))

----------------------------------------------------------------------------
(* The evaluation context of one rule on this tick *)

Context(candidate_subset, previous_true_subset) ==
    [partitions_def |-> pdef,
     evaluation_time |-> now,
     candidate_subset |-> candidate_subset,
     has_previous_evaluation_state |-> prev.exists,
     previous_evaluation_timestamp |-> prev.timestamp,
     previous_true_subset |->
         IF prev.exists THEN previous_true_subset ELSE {},
     materialized_since_previous_tick_subset |-> matSince,
     previous_tick_requested_subset |->
         IF prev.exists THEN prev.requested ELSE {},
     materialized_requested_or_discarded_since_previous_tick_subset |->
         IF prev.exists
         THEN matSince \cup prev.requested \cup prev.discard_true
         ELSE {},
     has_extra_state |-> prev.extra_state.has,
     extra_state |-> prev.extra_state.value,
     materialized_asset_subset |-> materialized,
     backfill_target_subset |-> backfill,
     is_root |-> is_root,
     candidate_parent_has_or_will_update_subset |->
         candidate_subset \cap parentUpd,
     has_materialization_or_observation |-> materialized]

----------------------------------------------------------------------------
(* The policies, and the state before the first tick *)

CronSchedules == {Width, Width + 1}

CronRules ==
    [cron_schedule : CronSchedules, timezone : {"UTC"}, all_partitions : BOOLEAN]

Policies ==
    [has_cron : BOOLEAN, cron : CronRules, has_missing : BOOLEAN,
     has_backfill : BOOLEAN, backfill : [all_partitions : BOOLEAN],
     has_discard : BOOLEAN, discard : [limit : 0..MaxLimit]]

(* a rule the policy lacks has one representative configuration *)
Canonical(p) ==
    /\ ~p.has_cron => p.cron = [cron_schedule |-> Width, timezone |-> "UTC",
                                    all_partitions |-> FALSE]
    /\ ~p.has_backfill => ~p.backfill.all_partitions
    /\ ~p.has_discard => p.discard.limit = 0

(* cron with the skip rule that lets an unmet obligation persist *)
CronPolicies ==
    {p \in Policies : /\ Canonical(p)
                      /\ p.has_cron /\ p.cron.cron_schedule = Width
                      /\ ~p.has_missing
                      /\ p.has_backfill /\ p.backfill.all_partitions
                      /\ ~p.has_discard}

(* missing, followed by the skip and the discard rule, which lets one     *)
(* partition through on a tick                                            *)
MissingPolicies ==
    {p \in Policies : /\ Canonical(p)
                      /\ ~p.has_cron /\ p.has_missing
                      /\ p.has_backfill
                      /\ p.has_discard /\ p.discard.limit = 1}

(* missing on an entity with parents, followed by the skip rule *)
NonRootPolicies ==
    {p \in Policies : /\ Canonical(p)
                      /\ ~p.has_cron /\ p.has_missing
                      /\ p.has_backfill /\ ~p.has_discard}

NoCall == [op |-> "none"]

NoPass == [active |-> FALSE, evaluated |-> {}, to_request |-> {},
           answers |-> {}]

NoHistory == [requested |-> {}, new_partitions |-> {}]

NoState ==
    [exists |-> FALSE, timestamp |-> 0,
     cron_new |-> {}, cron_true |-> {},
     missing_true |-> {}, extra_state |-> [has |-> FALSE, value |-> {}],
     missing_queried |-> FALSE,
     materialize_candidates |-> {}, materialize_true |-> {},
     skip_candidates |-> {}, skip_true |-> {},
     discard_candidates |-> {}, discard_true |-> {}, requested |-> {}]

BackfillTargets == {{}} \cup {{k} : k \in Keys}

InitWith(policies, schemes, roots) ==
    /\ is_root \in roots
    /\ parentUpd = {}
    /\ history = NoHistory
    /\ pass = NoPass
    /\ now = 1
    /\ pdef \in schemes
    /\ materialized = {}
    /\ matSince = {}
    /\ backfill = {}
    /\ policy \in policies
    /\ prev = NoState
    /\ pc = "idle"
    /\ call = NoCall

Init == InitWith(MissingPolicies, StaticDefs, {TRUE})

----------------------------------------------------------------------------
(* What happens between ticks.  What no rule of the policy reads (the      *)
(* clock without a cron rule, the backfills without the backfill rule) is  *)
(* left as it is.                                                          *)

AdvanceClock ==
    /\ policy.has_cron
    /\ now < MaxTime
    /\ now' = now + 1
    /\ pc' = "idle"
    /\ UNCHANGED <<pdef, materialized, matSince, backfill, policy, prev, call,
                 is_root, parentUpd, history, pass>>

(* a run materializes partition k of the entity *)
Materialize(k) ==
    /\ k \in get_partition_keys(pdef)
    /\ k \notin matSince
    /\ materialized' = IF policy.has_missing
                       THEN materialized \cup {k} ELSE materialized
    /\ matSince' = matSince \cup {k}
    /\ pc' = "idle"
    /\ UNCHANGED <<now, pdef, backfill, policy, prev, call,
                 is_root, parentUpd, history, pass>>

(* the entity's partition scheme is redefined: partitions are added or    *)
(* removed, the first time window moves.                                   *)
ChangeScheme(pd) ==
    /\ pd # pdef
    /\ pd.kind = pdef.kind
    /\ pdef' = pd
    /\ pc' = "idle"
    /\ UNCHANGED <<now, materialized, matSince, backfill, policy, prev, call,
                 is_root, parentUpd, history, pass>>

(* a parent of partition k updates, or is about to on the coming tick *)
ParentUpdated(k) ==
    /\ ~is_root
    /\ k \in get_partition_keys(pdef)
    /\ k \notin parentUpd
    /\ parentUpd' = parentUpd \cup {k}
    /\ pc' = "idle"
    /\ UNCHANGED <<now, pdef, materialized, matSince, backfill, policy, prev,
                   call, is_root, history, pass>>

(* a backfill starts, ends or is replaced *)
SetBackfill(target) ==
    /\ policy.has_backfill
    /\ target # backfill
    /\ backfill' = target
    /\ pc' = "idle"
    /\ UNCHANGED <<now, pdef, materialized, matSince, policy, prev, call,
                 is_root, parentUpd, history, pass>>

----------------------------------------------------------------------------
(* One evaluation tick of the entity: the materialize rules over every     *)
(* existing partition, the skip rules over what they selected, the discard *)
(* rule over what survived; the state is replaced wholesale.               *)

(* the materialize and the skip stage *)
EvaluateRules ==
    LET all == AllSubset(pdef)
        cron_ctx == Context(all, prev.cron_true)
        missing_ctx == Context(all, prev.missing_true)
        cron_new == IF policy.has_cron
                    THEN get_new_asset_partitions_to_request(policy.cron, cron_ctx)
                    ELSE {}
        cron_true == IF policy.has_cron
                     THEN MaterializeOnCronRule_evaluate(policy.cron, cron_ctx)
                     ELSE {}
        missing_true == IF policy.has_missing
                        THEN MaterializeOnMissingRule_evaluate(missing_ctx)
                        ELSE {}
        extra_state == IF policy.has_missing
                       THEN MaterializeOnMissingRule_extra_state(missing_ctx)
                       ELSE [has |-> FALSE, value |-> {}]
        materialize_true == cron_true \cup missing_true
        skip_true == IF policy.has_backfill
                     THEN SkipOnBackfillInProgressRule_evaluate(
                              policy.backfill, Context(materialize_true, {}))
                     ELSE {}
    IN  [exists |-> TRUE, timestamp |-> now,
         cron_new |-> cron_new, cron_true |-> cron_true,
         missing_true |-> missing_true, extra_state |-> extra_state,
         missing_queried |-> /\ policy.has_missing /\ is_root
                             /\ get_handled_subset_queries(missing_ctx),
         materialize_candidates |-> all,
         materialize_true |-> materialize_true,
         skip_candidates |-> materialize_true, skip_true |-> skip_true,
         discard_candidates |-> materialize_true \ skip_true]

(* the discard stage and the final decision; order is the order in which   *)
(* the discard rule's candidates are iterated.                             *)
EvaluateDiscard(r, order) ==
    LET discard_true ==
            IF policy.has_discard
            THEN DiscardOnMaxMaterializationsExceededRule_evaluate(
                     policy.discard, order)
            ELSE {}
    IN  [exists |-> TRUE, timestamp |-> r.timestamp,
         cron_new |-> r.cron_new, cron_true |-> r.cron_true,
         missing_true |-> r.missing_true, extra_state |-> r.extra_state,
         missing_queried |-> r.missing_queried,
         materialize_candidates |-> r.materialize_candidates,
         materialize_true |-> r.materialize_true,
         skip_candidates |-> r.skip_candidates, skip_true |-> r.skip_true,
         discard_candidates |-> r.discard_candidates,
         discard_true |-> discard_true,
         requested |-> (r.materialize_true \ r.skip_true) \ discard_true]

Evaluate ==
    /\ LET r == EvaluateRules
       IN  \E order \in IterationOrders(r.discard_candidates) :
               prev' = EvaluateDiscard(r, order)
    /\ matSince' = {}
    /\ parentUpd' = {}
    /\ pc' = "evaluated"
    /\ UNCHANGED <<now, pdef, materialized, backfill, policy, call, is_root,
                   pass>>

Tick == Evaluate /\ UNCHANGED history

(* a tick whose requests and whose new partitions the observer records *)
TickObserved ==
    /\ Evaluate
    /\ history' =
           [requested |-> history.requested \cup prev'.requested,
            new_partitions |->
                IF prev.exists
                THEN get_partition_keys(pdef) \ prev.materialize_candidates
                ELSE {}]

(* a policy without a cron rule: the clock is not part of what it reads *)
Next ==
    \/ \E k \in Keys \cup {NoKey} : Materialize(k)
    \/ \E pd \in Schemes : ChangeScheme(pd)
    \/ \E target \in BackfillTargets : SetBackfill(target)
    \/ Tick

NextTimed ==
    \/ AdvanceClock
    \/ \E k \in Keys \cup {NoKey} : Materialize(k)
    \/ \E pd \in Schemes : ChangeScheme(pd)
    \/ \E target \in BackfillTargets : SetBackfill(target)
    \/ Tick

(* an entity with parents *)
NextNonRoot ==
    \/ \E k \in Keys \cup {NoKey} : Materialize(k)
    \/ \E k \in Keys \cup {NoKey} : ParentUpdated(k)
    \/ \E pd \in Schemes : ChangeScheme(pd)
    \/ \E target \in BackfillTargets : SetBackfill(target)
    \/ Tick

(* an entity with parents whose scheme stays as it is *)
NextNonRootSettled ==
    \/ \E k \in Keys \cup {NoKey} : Materialize(k)
    \/ \E k \in Keys \cup {NoKey} : ParentUpdated(k)
    \/ \E target \in BackfillTargets : SetBackfill(target)
    \/ Tick

(* the ticks of a root entity under the missing rule, observed *)
NextObserved ==
    \/ \E k \in Keys \cup {NoKey} : Materialize(k)
    \/ \E pd \in Schemes : ChangeScheme(pd)
    \/ \E target \in BackfillTargets : SetBackfill(target)
    \/ TickObserved

Spec == Init /\ [][Next]_vars

SpecNonRootSettled ==
    /\ InitWith({p \in NonRootPolicies : ~p.backfill.all_partitions},
                {pd \in StaticDefs : pd.keys = Keys}, {FALSE})
    /\ [][NextNonRootSettled]_vars

SpecObserved ==
    /\ InitWith({p \in MissingPolicies : ~p.backfill.all_partitions},
                StaticDefs, {TRUE})
    /\ [][NextObserved]_vars

SpecNonRoot ==
    InitWith(NonRootPolicies, StaticDefs, {FALSE}) /\ [][NextNonRoot]_vars

SpecCron == InitWith(CronPolicies, Schemes, {TRUE}) /\ [][NextTimed]_vars

----------------------------------------------------------------------------
(* Direct calls of the cron rule's methods: the rule, the evaluation time, *)
(* the previous evaluation timestamp (if any) and the scheme are drawn     *)
(* from their bounded sets.                                                *)

CronContext(evaluation_time, has_previous, previous_timestamp, pd) ==
    [partitions_def |-> pd,
     evaluation_time |-> evaluation_time,
     has_previous_evaluation_state |-> has_previous,
     previous_evaluation_timestamp |-> previous_timestamp]

CronContexts ==
    {CronContext(t, FALSE, 0, pd) : t \in 1..MaxTime, pd \in Schemes}
    \cup {CronContext(x[2], TRUE, x[1], pd) :
              x \in {y \in (1..MaxTime) \X (1..MaxTime) : y[1] <= y[2]},
              pd \in Schemes}

Call_missed_cron_ticks(rule, ctx) ==
    /\ call = NoCall
    /\ call' = [op |-> "missed_cron_ticks", rule |-> rule, ctx |-> ctx,
                result |-> missed_cron_ticks(rule, ctx)]
    /\ UNCHANGED <<now, pdef, materialized, matSince, backfill, policy, prev, pc,
                 is_root, parentUpd, history, pass>>

Call_get_new_asset_partitions_to_request(rule, ctx) ==
    /\ call = NoCall
    /\ call' = [op |-> "get_new_asset_partitions_to_request",
                rule |-> rule, ctx |-> ctx,
                result |-> get_new_asset_partitions_to_request(rule, ctx)]
    /\ UNCHANGED <<now, pdef, materialized, matSince, backfill, policy, prev, pc,
                 is_root, parentUpd, history, pass>>

(* evaluate_for_asset on a tick after another one: the previous tick's     *)
(* true subset and what was materialized, requested or discarded since     *)
Call_cron_evaluate(rule, ctx, previous_true, handled) ==
    /\ call = NoCall
    /\ LET context ==
               [partitions_def |-> ctx.partitions_def,
                evaluation_time |-> ctx.evaluation_time,
                has_previous_evaluation_state |-> TRUE,
                previous_evaluation_timestamp |->
                    ctx.previous_evaluation_timestamp,
                previous_true_subset |-> previous_true,
                materialized_requested_or_discarded_since_previous_tick_subset
                    |-> handled]
       IN  call' = [op |-> "cron_evaluate", rule |-> rule, ctx |-> context,
                    new |-> get_new_asset_partitions_to_request(rule, context),
                    result |-> MaterializeOnCronRule_evaluate(rule, context)]
    /\ UNCHANGED <<now, pdef, materialized, matSince, backfill, policy, prev, pc,
                   is_root, parentUpd, history, pass>>

NextCronCalls ==
    /\ call = NoCall
    /\ \E rule \in CronRules, ctx \in CronContexts :
           \/ Call_missed_cron_ticks(rule, ctx)
           \/ Call_get_new_asset_partitions_to_request(rule, ctx)
           \/ /\ ctx.has_previous_evaluation_state
              /\ \E previous_true \in SUBSET ctx.partitions_def.keys,
                    handled \in SUBSET ctx.partitions_def.keys :
                     Call_cron_evaluate(rule, ctx, previous_true, handled)

(* the state in which the methods are called directly *)
InitCalls ==
    InitWith({CHOOSE p \in MissingPolicies : TRUE}, {NoneDef}, {TRUE})

SpecCronCalls == InitCalls /\ [][NextCronCalls]_vars

----------------------------------------------------------------------------
(* Rule instances: a rule is a NamedTuple subclass, that is its class and  *)
(* the tuple of its fields.  A field value is a bool, an int, a str, None  *)
(* or an AutoMaterializeAssetPartitionsFilter; val is the int or the bool  *)
(* as Python's int (True is 1), or a code of the string or of the          *)
(* filter's latest_run_required_tags (0: None, 1: {}, 2: a tag).           *)

BoolValue(b) == [tag |-> "bool", val |-> IF b THEN 1 ELSE 0]
IntValue(n) == [tag |-> "int", val |-> n]
StrValue(c) == [tag |-> "str", val |-> c]
NoneValue == [tag |-> "none", val |-> 0]
FilterValue(tags) == [tag |-> "filter", val |-> tags]

IsNumber(v) == v.tag \in {"bool", "int"}

(* Python's == on two field values *)
value_eq(a, b) ==
    IF IsNumber(a) /\ IsNumber(b) THEN a.val = b.val
    ELSE a.tag = b.tag /\ a.val = b.val

(* Python's hash of a field value; AutoMaterializeAssetPartitionsFilter    *)
(* hashes frozenset((latest_run_required_tags or {}).items()).             *)
value_hash(v) ==
    IF IsNumber(v) THEN v.val
    ELSE IF v.tag = "none" THEN 7
    ELSE IF v.tag = "str" THEN 100 + v.val
    ELSE IF v.val \in {0, 1} THEN 200 ELSE 200 + v.val

(* tuple.__eq__ *)
tuple_eq(x, y) ==
    /\ Len(x) = Len(y)
    /\ \A i \in 1..Len(x) : value_eq(x[i], y[i])

RECURSIVE tuple_hash(_)
(* tuple.__hash__: the hashes of the elements, combined in order *)
tuple_hash(x) ==
    IF x = <<>> THEN 1
    ELSE (tuple_hash(SubSeq(x, 1, Len(x) - 1)) * 31 + value_hash(x[Len(x)]))
         % 1000003

RuleClasses ==
    <<"MaterializeOnRequiredForFreshnessRule", "MaterializeOnCronRule",
      "MaterializeOnParentUpdatedRule", "MaterializeOnMissingRule",
      "SkipOnParentOutdatedRule", "SkipOnParentMissingRule",
      "SkipOnNotAllParentsUpdatedRule",
      "SkipOnRequiredButNonexistentParentsRule",
      "SkipOnBackfillInProgressRule",
      "DiscardOnMaxMaterializationsExceededRule">>

(* hash(type(self)): one value per class *)
type_hash(class) ==
    1000 * (CHOOSE i \in DOMAIN RuleClasses : RuleClasses[i] = class)

Rule(class, fields) == [class |-> class, fields |-> fields]

(* the default NamedTuple __eq__, which compares the fields alone *)
rule_eq_fields_only(a, b) == tuple_eq(a.fields, b.fields)

(* AutoMaterializeRule.__eq__ *)
rule_eq(a, b) == a.class = b.class /\ tuple_eq(a.fields, b.fields)

(* AutoMaterializeRule.__hash__ *)
rule_hash(a) == (type_hash(a.class) + tuple_hash(a.fields)) % 1000003

Rules ==
    {Rule(c, <<>>) : c \in {"MaterializeOnRequiredForFreshnessRule",
                            "MaterializeOnMissingRule",
                            "SkipOnParentOutdatedRule",
                            "SkipOnParentMissingRule",
                            "SkipOnRequiredButNonexistentParentsRule"}}
    \cup {Rule("MaterializeOnCronRule", <<StrValue(c), StrValue(tz), BoolValue(b)>>) :
              c \in CronSchedules, tz \in {1}, b \in BOOLEAN}
    \cup {Rule("MaterializeOnParentUpdatedRule", <<f>>) :
              f \in {NoneValue} \cup {FilterValue(t) : t \in 0..2}}
    \cup {Rule(c, <<BoolValue(b)>>) : c \in {"SkipOnNotAllParentsUpdatedRule",
                                        "SkipOnBackfillInProgressRule"},
                                 b \in BOOLEAN}
    \cup {Rule("DiscardOnMaxMaterializationsExceededRule", <<IntValue(n)>>) :
              n \in 0..MaxLimit}

----------------------------------------------------------------------------
(* Snapshots of rules.  A description is the sequence of the pieces of     *)
(* its f-string: the literal texts and the field values formatted into it. *)

filter_description(f) ==
    <<"latest run includes required tags: ", f.val>>

decision_type(rule) ==
    IF rule.class \in {"MaterializeOnRequiredForFreshnessRule",
                       "MaterializeOnCronRule",
                       "MaterializeOnParentUpdatedRule",
                       "MaterializeOnMissingRule"}
    THEN "MATERIALIZE"
    ELSE IF rule.class = "DiscardOnMaxMaterializationsExceededRule"
    THEN "DISCARD"
    ELSE "SKIP"

description(rule) ==
    CASE rule.class = "MaterializeOnRequiredForFreshnessRule" ->
             <<"required to meet this or downstream asset's freshness policy">>
      [] rule.class = "MaterializeOnCronRule" ->
             <<"not materialized since last cron schedule tick of '",
               rule.fields[1].val, "' (timezone: ", rule.fields[2].val, ")">>
      [] rule.class = "MaterializeOnParentUpdatedRule" ->
             IF rule.fields[1] # NoneValue
             THEN <<"upstream data has changed since latest materialization",
                    " and matches filter '">>
                  \o filter_description(rule.fields[1]) \o <<"'">>
             ELSE <<"upstream data has changed since latest materialization">>
      [] rule.class = "MaterializeOnMissingRule" ->
             <<"materialization is missing">>
      [] rule.class = "SkipOnParentOutdatedRule" ->
             <<"waiting on upstream data to be up to date">>
      [] rule.class = "SkipOnParentMissingRule" ->
             <<"waiting on upstream data to be present">>
      [] rule.class = "SkipOnNotAllParentsUpdatedRule" ->
             IF rule.fields[1] = BoolValue(FALSE)
             THEN <<"waiting on upstream data to be updated">>
             ELSE <<"waiting until all upstream partitions are updated">>
      [] rule.class = "SkipOnRequiredButNonexistentParentsRule" ->
             <<"required parent partitions do not exist">>
      [] rule.class = "SkipOnBackfillInProgressRule" ->
             IF rule.fields[1].val # 0
             THEN <<"part of an asset targeted by an in-progress backfill">>
             ELSE <<"targeted by an in-progress backfill">>
      [] rule.class = "DiscardOnMaxMaterializationsExceededRule" ->
             <<"exceeds ", rule.fields[1].val, " materialization(s) per minute">>

(* a snapshot that records the base class and no configuration *)
to_snapshot_of_base_class(rule) ==
    [class_name |-> "AutoMaterializeRule",
     description |-> <<>>,
     decision_type |-> decision_type(rule)]

(* AutoMaterializeRule.to_snapshot *)
to_snapshot(rule) ==
    [class_name |-> rule.class,
     description |-> description(rule),
     decision_type |-> decision_type(rule)]

(* a == b, the two hashes and the two snapshots *)
Call_eq(a, b) ==
    /\ call = NoCall
    /\ call' = [op |-> "eq", a |-> a, b |-> b, result |-> rule_eq(a, b),
                hash_a |-> rule_hash(a), hash_b |-> rule_hash(b),
                snapshot_a |-> to_snapshot(a), snapshot_b |-> to_snapshot(b)]
    /\ UNCHANGED <<now, pdef, materialized, matSince, backfill, policy, prev, pc,
                 is_root, parentUpd, history, pass>>

Call_to_snapshot(rule) ==
    /\ call = NoCall
    /\ call' = [op |-> "to_snapshot", rule |-> rule,
                result |-> to_snapshot(rule)]
    /\ UNCHANGED <<now, pdef, materialized, matSince, backfill, policy, prev, pc,
                   is_root, parentUpd, history, pass>>

----------------------------------------------------------------------------
(* AutoMaterializeRule.materialize_on_cron.  A cron string is the period   *)
(* of its ticks, or NotCron when it is no cron expression; an argument     *)
(* left out of the call is Default.                                        *)

NotCron == 0

Default == <<>>

Given(value) == <<value>>

(* pytz.all_timezones_set *)
all_timezones_set == {"UTC", "Europe/Berlin"}

is_valid_cron_string(cron_schedule) == cron_schedule # NotCron

(* check.param_invariant failing *)
ParameterCheckError(param) ==
    [raised |-> TRUE, param |-> param,
     rule |-> [cron_schedule |-> NotCron, timezone |-> "",
               all_partitions |-> FALSE]]

(* the static constructor checking nothing *)
materialize_on_cron_unchecked(cron_schedule, timezone_arg, all_partitions_arg) ==
    [raised |-> FALSE, param |-> "",
     rule |-> [cron_schedule |-> cron_schedule,
               timezone |-> IF timezone_arg # Default THEN timezone_arg[1]
                            ELSE "UTC",
               all_partitions |-> IF all_partitions_arg # Default
                                  THEN all_partitions_arg[1] ELSE FALSE]]

materialize_on_cron(cron_schedule, timezone_arg, all_partitions_arg) ==
    LET timezone == IF timezone_arg # Default THEN timezone_arg[1] ELSE "UTC"
        all_partitions == IF all_partitions_arg # Default
                          THEN all_partitions_arg[1] ELSE FALSE
    IN  IF ~is_valid_cron_string(cron_schedule)
        THEN ParameterCheckError("cron_schedule")
        ELSE IF timezone \notin all_timezones_set
        THEN ParameterCheckError("timezone")
        ELSE [raised |-> FALSE, param |-> "",
              rule |-> [cron_schedule |-> cron_schedule,
                        timezone |-> timezone,
                        all_partitions |-> all_partitions]]

Call_materialize_on_cron(cron_schedule, timezone_arg, all_partitions_arg) ==
    /\ call = NoCall
    /\ call' = [op |-> "materialize_on_cron",
                cron_schedule |-> cron_schedule,
                timezone |-> timezone_arg,
                all_partitions |-> all_partitions_arg,
                result |-> materialize_on_cron(cron_schedule, timezone_arg,
                                               all_partitions_arg)]
    /\ UNCHANGED <<now, pdef, materialized, matSince, backfill, policy, prev, pc,
                   is_root, parentUpd, history, pass>>

NextRuleCalls ==
    \/ call = NoCall /\ \E a \in Rules, b \in Rules : Call_eq(a, b)
    \/ call = NoCall /\ \E rule \in Rules : Call_to_snapshot(rule)
    \/ /\ call = NoCall
       /\ \E cron_schedule \in {NotCron} \cup CronSchedules,
             timezone_arg \in {Default} \cup {Given(tz) :
                 tz \in all_timezones_set \cup {"Mars/Olympus"}},
             all_partitions_arg \in {Default} \cup {Given(b) : b \in BOOLEAN} :
              Call_materialize_on_cron(cron_schedule, timezone_arg,
                                       all_partitions_arg)

SpecRuleCalls == InitCalls /\ [][NextRuleCalls]_vars

----------------------------------------------------------------------------
(* AutoMaterializeAssetPartitionsFilter.passes.  A tag mapping is the set  *)
(* of its items; q holds the collaborators' answers: the input partitions, *)
(* those that will update on this tick, the run of each partition's latest *)
(* record (NoRun: no record), the tags of each run and the daemon's run    *)
(* tags.                                                                   *)

MaxRuns == 2

RunIds == 1..MaxRuns

NoRun == 0

(* latest_run_required_tags: None, or a mapping *)
NoTags == [none |-> TRUE, items |-> {}]

Tags(items) == [none |-> FALSE, items |-> items]

(* the partitions a filter is called with *)
FilterPartitions == 1..MaxRuns

AUTO_MATERIALIZE_TAG == "dagster/auto_materialize=true"

TagItems == {AUTO_MATERIALIZE_TAG, "daemon=d", "team=t"}

Raised(message) == [raised |-> TRUE, value |-> {}, lookups |-> <<>>]

Returned(value, lookups) ==
    [raised |-> FALSE, value |-> value, lookups |-> lookups]

(* instance.get_run_ids(RunsFilter(run_ids, tags)) *)
get_run_ids(q, run_ids, tags) ==
    {r \in run_ids : tags \subseteq q.run_tags[r]}

(* the filter dropping a partition without a record instead of raising *)
passes_dropping_unrecorded(filter, q) ==
    IF filter.latest_run_required_tags = NoTags
    THEN Returned(q.asset_partitions, <<>>)
    ELSE LET will_update_asset_partitions ==
                 q.asset_partitions \cap q.will_update
             recorded ==
                 {ap \in q.asset_partitions \ q.will_update :
                      q.latest_run[ap] # NoRun}
             run_ids == {q.latest_run[ap] : ap \in recorded}
             lookups == IF run_ids # {} THEN <<run_ids>> ELSE <<>>
             updated_partitions_with_required_tags ==
                 {ap \in recorded :
                      q.latest_run[ap] \in
                          get_run_ids(q, run_ids,
                                      filter.latest_run_required_tags.items)}
         IN  Returned(updated_partitions_with_required_tags, lookups)

(* the filter passing every partition that will update *)
passes_will_update_always(filter, q) ==
    IF filter.latest_run_required_tags = NoTags
    THEN Returned(q.asset_partitions, <<>>)
    ELSE LET will_update_asset_partitions ==
                 q.asset_partitions \cap q.will_update
             updated == q.asset_partitions \ q.will_update
             run_ids == {q.latest_run[ap] : ap \in updated}
             lookups == IF run_ids # {} THEN <<run_ids>> ELSE <<>>
             run_ids_with_required_tags ==
                 IF run_ids # {}
                 THEN get_run_ids(q, run_ids,
                                  filter.latest_run_required_tags.items)
                 ELSE {}
             updated_partitions_with_required_tags ==
                 {ap \in updated :
                      q.latest_run[ap] \in run_ids_with_required_tags}
         IN  IF \E ap \in updated : q.latest_run[ap] = NoRun
             THEN Raised("No materialization record found")
             ELSE Returned(will_update_asset_partitions
                           \cup updated_partitions_with_required_tags,
                           lookups)

(* the filter looking the runs up whether or not there is any *)
passes_always_looking_up(filter, q) ==
    IF filter.latest_run_required_tags = NoTags
    THEN Returned(q.asset_partitions, <<>>)
    ELSE LET will_update_asset_partitions ==
                 q.asset_partitions \cap q.will_update
             updated == q.asset_partitions \ q.will_update
             run_ids == {q.latest_run[ap] : ap \in updated}
             lookups == <<run_ids>>
             run_ids_with_required_tags ==
                 IF run_ids # {}
                 THEN get_run_ids(q, run_ids,
                                  filter.latest_run_required_tags.items)
                 ELSE {}
             updated_partitions_with_required_tags ==
                 {ap \in updated :
                      q.latest_run[ap] \in run_ids_with_required_tags}
         IN  IF \E ap \in updated : q.latest_run[ap] = NoRun
             THEN Raised("No materialization record found")
             ELSE IF filter.latest_run_required_tags.items
                         \subseteq ({AUTO_MATERIALIZE_TAG}
                                    \cup q.auto_materialize_run_tags)
             THEN Returned(will_update_asset_partitions
                           \cup updated_partitions_with_required_tags,
                           lookups)
             ELSE Returned(updated_partitions_with_required_tags, lookups)

passes(filter, q) ==
    IF filter.latest_run_required_tags = NoTags
    THEN Returned(q.asset_partitions, <<>>)
    ELSE LET will_update_asset_partitions ==
                 q.asset_partitions \cap q.will_update
             updated == q.asset_partitions \ q.will_update
             run_ids == {q.latest_run[ap] : ap \in updated}
             lookups == IF run_ids # {} THEN <<run_ids>> ELSE <<>>
             run_ids_with_required_tags ==
                 IF run_ids # {}
                 THEN get_run_ids(q, run_ids,
                                  filter.latest_run_required_tags.items)
                 ELSE {}
             updated_partitions_with_required_tags ==
                 {ap \in updated :
                      q.latest_run[ap] \in run_ids_with_required_tags}
         IN  IF \E ap \in updated : q.latest_run[ap] = NoRun
             THEN Raised("No materialization record found")
             ELSE IF filter.latest_run_required_tags.items
                         \subseteq ({AUTO_MATERIALIZE_TAG}
                                    \cup q.auto_materialize_run_tags)
             THEN Returned(will_update_asset_partitions
                           \cup updated_partitions_with_required_tags,
                           lookups)
             ELSE Returned(updated_partitions_with_required_tags, lookups)

(* run 1 carries the given tags; every later run carries none *)
FilterAnswer(asset_partitions, will_update, latest_run, tags, daemon_tags) ==
    [asset_partitions |-> asset_partitions,
     will_update |-> will_update,
     latest_run |-> latest_run,
     run_tags |-> [r \in RunIds |-> IF r = 1 THEN tags ELSE {}],
     auto_materialize_run_tags |-> daemon_tags]

Call_passes(filter, q) ==
    /\ call = NoCall
    /\ call' = [op |-> "passes", filter |-> filter, q |-> q,
                result |-> passes(filter, q)]
    /\ UNCHANGED <<now, pdef, materialized, matSince, backfill, policy, prev, pc,
                   is_root, parentUpd, history, pass>>

NextFilterCalls ==
    /\ call = NoCall
    /\ \E required \in {NoTags} \cup {Tags(t) : t \in SUBSET TagItems},
          aps \in SUBSET FilterPartitions, tags \in SUBSET TagItems,
          daemon_tags \in SUBSET {"daemon=d"} :
           \E wu \in SUBSET aps, latest_run \in [FilterPartitions -> {NoRun} \cup RunIds] :
               Call_passes([latest_run_required_tags |-> required],
                           FilterAnswer(aps, wu, latest_run, tags, daemon_tags))

SpecFilterCalls == InitCalls /\ [][NextFilterCalls]_vars

----------------------------------------------------------------------------
(* Direct calls of the discard rule: a limit, a candidate subset and the   *)
(* order in which the subset is iterated.                                  *)

MaxCandidates == 5

Call_discard(limit, order) ==
    /\ call = NoCall
    /\ call' = [op |-> "discard", limit |-> limit, candidates |-> order,
                result |-> DiscardOnMaxMaterializationsExceededRule_evaluate(
                               [limit |-> limit], order)]
    /\ UNCHANGED <<now, pdef, materialized, matSince, backfill, policy, prev, pc,
                 is_root, parentUpd, history, pass>>

NextDiscardCalls ==
    /\ call = NoCall
    /\ \E limit \in 0..MaxLimit, S \in SUBSET (1..MaxCandidates) :
           \E order \in IterationOrders(S) : Call_discard(limit, order)

SpecDiscardCalls == InitCalls /\ [][NextDiscardCalls]_vars

----------------------------------------------------------------------------
(* SkipOnNotAllParentsUpdatedRule, for one candidate of entity X whose     *)
(* parents are A, B and possibly X itself.  An entity-partition is the     *)
(* pair of its entity key and its partition key.                           *)

MaxParentPartitions == 3

PartitionsOf(key) ==
    IF key = "A" THEN {<<"A", k>> : k \in 1..MaxParentPartitions}
    ELSE IF key = "B" THEN {<<"B", k>> : k \in 1..(MaxParentPartitions - 1)}
    ELSE {<<"X", 1>>}

AssetKeysOf(asset_partitions) == {ap[1] : ap \in asset_partitions}

(* the rule requiring every parent partition whatever its flag says *)
non_updated_parent_keys_all_required(rule, q) ==
    AssetKeysOf(q.parent_partitions
                \ (q.updated_after_child \cup q.parent_will_update))
    \ {q.asset_key}

(* the rule counting the entity itself among its parents *)
non_updated_parent_keys_with_self(rule, q) ==
    LET updated_parent_partitions ==
            q.updated_after_child \cup q.parent_will_update
    IN  IF rule.require_update_for_all_parent_partitions
        THEN AssetKeysOf(q.parent_partitions \ updated_parent_partitions)
        ELSE q.parent_asset_keys \ AssetKeysOf(updated_parent_partitions)

(* q holds the collaborators' answers for the candidate: its parent        *)
(* partitions, the entity's parent keys, the parent partitions updated     *)
(* after the child, the parent partitions that will update on this tick.   *)
non_updated_parent_keys(rule, q) ==
    LET updated_parent_partitions ==
            q.updated_after_child \cup q.parent_will_update
    IN  (IF rule.require_update_for_all_parent_partitions
         THEN AssetKeysOf(q.parent_partitions \ updated_parent_partitions)
         ELSE q.parent_asset_keys \ AssetKeysOf(updated_parent_partitions))
        \ {q.asset_key}

ParentAnswer(keys, pp, up, wu) ==
    [asset_key |-> "X", parent_asset_keys |-> keys,
     parent_partitions |-> pp, updated_after_child |-> up,
     parent_will_update |-> wu]

ParentPartitionsOf(keys) == UNION {PartitionsOf(key) : key \in keys}

Call_non_updated_parent_keys(rule, q) ==
    /\ call = NoCall
    /\ call' = [op |-> "non_updated_parent_keys", rule |-> rule, q |-> q,
                result |-> non_updated_parent_keys(rule, q),
                skipped |-> non_updated_parent_keys(rule, q) # {}]
    /\ UNCHANGED <<now, pdef, materialized, matSince, backfill, policy, prev, pc,
                 is_root, parentUpd, history, pass>>

(* the parent partitions of the candidate are partitions of the entity's  *)
(* parents, those updated after the child are among them, and at most one *)
(* parent partition will update on this tick                              *)
NextParentCalls ==
    /\ call = NoCall
    /\ \E rule \in [require_update_for_all_parent_partitions : BOOLEAN],
          keys \in {{"A", "B"}, {"A", "B", "X"}} :
          \E pp \in SUBSET ParentPartitionsOf(keys),
             wu \in {{}} \cup {{ap} : ap \in ParentPartitionsOf(keys)} :
             \E up \in SUBSET pp :
                Call_non_updated_parent_keys(rule,
                                             ParentAnswer(keys, pp, up, wu))

SpecParentCalls == InitCalls /\ [][NextParentCalls]_vars

----------------------------------------------------------------------------
(* The driver's pass over a graph of three entities within one tick: A has *)
(* no parent, B's parent is A, X's parents are A and B.  Evaluating an     *)
(* entity asks, for each of its parents' partitions, whether it will       *)
(* update on this tick, and decides the partitions of the entity to        *)
(* request; the decision is any subset of them, whatever its rules are.    *)

Entities == {"A", "B", "X"}

ParentsOf(key) ==
    IF key = "X" THEN {"A", "B"}
    ELSE IF key = "B" THEN {"A"}
    ELSE {}

(* context.will_update_asset_partition *)
will_update_asset_partition(asset_partition) ==
    asset_partition \in pass.to_request

(* a driver taking the entities in any order *)
ReadyInAnyOrder(key) ==
    key \notin pass.evaluated

(* the entities the driver may take next: dependency order *)
Ready(key) ==
    /\ key \notin pass.evaluated
    /\ ParentsOf(key) \subseteq pass.evaluated

StartPass ==
    /\ call = NoCall
    /\ ~pass.active
    /\ pass' = [active |-> TRUE, evaluated |-> {}, to_request |-> {},
                answers |-> {}]
    /\ UNCHANGED <<now, pdef, materialized, matSince, backfill, policy, prev, pc,
                   call, is_root, parentUpd, history>>

EvaluateEntity(key, decision) ==
    /\ pass.active
    /\ Ready(key)
    /\ pass' = [pass EXCEPT
                    !.evaluated = @ \cup {key},
                    !.to_request = @ \cup decision,
                    !.answers = @ \cup
                        {[child |-> key, parent |-> parent,
                          will_update |-> will_update_asset_partition(parent)] :
                             parent \in ParentPartitionsOf(ParentsOf(key))}]
    /\ UNCHANGED <<now, pdef, materialized, matSince, backfill, policy, prev, pc,
                   call, is_root, parentUpd, history>>

EndPass ==
    /\ pass.active
    /\ pass.evaluated = Entities
    /\ pass' = [pass EXCEPT !.active = FALSE]
    /\ UNCHANGED <<now, pdef, materialized, matSince, backfill, policy, prev, pc,
                   call, is_root, parentUpd, history>>

NextPass ==
    \/ StartPass
    \/ \E key \in Entities :
           \E decision \in SUBSET PartitionsOf(key) :
               EvaluateEntity(key, decision)
    \/ EndPass

SpecPass == InitCalls /\ [][NextPass]_vars

----------------------------------------------------------------------------
(* Direct calls of evaluate_for_asset, once and once more with the same    *)
(* context: the missing rule on a root and on a non-root entity, and the   *)
(* discard rule, whose candidates the two runs may iterate in different    *)
(* orders.                                                                 *)

AllKeysDef == [kind |-> "static", keys |-> Keys]

(* has_handled: a previous evaluation state with the rule's extra state;  *)
(* handled is then that state, and the materialized subset otherwise.     *)
RootMissingContext(candidates, since, requested, has_handled, handled) ==
    [partitions_def |-> AllKeysDef,
     candidate_subset |-> candidates,
     has_previous_evaluation_state |-> has_handled,
     previous_true_subset |-> {},
     materialized_since_previous_tick_subset |-> since,
     previous_tick_requested_subset |-> requested,
     has_extra_state |-> has_handled,
     extra_state |-> handled,
     materialized_asset_subset |-> handled,
     is_root |-> TRUE,
     candidate_parent_has_or_will_update_subset |-> {},
     has_materialization_or_observation |-> handled]

NonRootMissingContext(parent_updated, records, previous_true, requested) ==
    [partitions_def |-> AllKeysDef,
     candidate_subset |-> Keys,
     has_previous_evaluation_state |-> TRUE,
     previous_true_subset |-> previous_true,
     materialized_since_previous_tick_subset |-> {},
     previous_tick_requested_subset |-> requested,
     has_extra_state |-> FALSE,
     extra_state |-> {},
     materialized_asset_subset |-> records,
     is_root |-> FALSE,
     candidate_parent_has_or_will_update_subset |-> parent_updated,
     has_materialization_or_observation |-> records]

(* what one evaluation returns: the true subset and the extra state *)
MissingResult(ctx) ==
    [true_subset |-> MaterializeOnMissingRule_evaluate(ctx),
     extra_state |-> MaterializeOnMissingRule_extra_state(ctx)]

DiscardResult(rule, order) ==
    [true_subset |->
         DiscardOnMaxMaterializationsExceededRule_evaluate(rule, order),
     extra_state |-> [has |-> FALSE, value |-> {}]]

Call_missing_evaluate(ctx) ==
    /\ call = NoCall
    /\ call' = [op |-> "evaluate_for_asset", rule |-> "missing", ctx |-> ctx,
                runs |-> 1, first |-> MissingResult(ctx),
                again |-> MissingResult(ctx)]
    /\ UNCHANGED <<now, pdef, materialized, matSince, backfill, policy, prev, pc,
                   is_root, parentUpd, history, pass>>

Call_discard_evaluate(limit, order) ==
    /\ call = NoCall
    /\ call' = [op |-> "evaluate_for_asset", rule |-> "discard",
                ctx |-> [limit |-> limit, candidate_subset |-> Range(order)],
                runs |-> 1, first |-> DiscardResult([limit |-> limit], order),
                again |-> DiscardResult([limit |-> limit], order)]
    /\ UNCHANGED <<now, pdef, materialized, matSince, backfill, policy, prev, pc,
                   is_root, parentUpd, history, pass>>

(* the same evaluation once more, from the context the first run read *)
Call_evaluate_again ==
    /\ call.op = "evaluate_for_asset"
    /\ call.runs = 1
    /\ \E order \in IterationOrders(call.ctx.candidate_subset) :
           call' = [call EXCEPT
                        !.runs = 2,
                        !.again = IF call.rule = "missing"
                                  THEN MissingResult(call.ctx)
                                  ELSE DiscardResult(call.ctx, order)]
    /\ UNCHANGED <<now, pdef, materialized, matSince, backfill, policy, prev, pc,
                   is_root, parentUpd, history, pass>>

NextRerunCalls ==
    \/ /\ call = NoCall
       /\ \E c \in SUBSET Keys, m \in SUBSET Keys, r \in SUBSET Keys,
             b \in BOOLEAN, h \in SUBSET Keys :
              Call_missing_evaluate(RootMissingContext(c, m, r, b, h))
    \/ /\ call = NoCall
       /\ \E u \in SUBSET Keys, m \in SUBSET Keys, t \in SUBSET Keys,
             r \in SUBSET Keys :
              Call_missing_evaluate(NonRootMissingContext(u, m, t, r))
    \/ /\ call = NoCall
       /\ \E limit \in 0..MaxLimit, S \in SUBSET Keys :
              \E order \in IterationOrders(S) :
                  Call_discard_evaluate(limit, order)
    \/ Call_evaluate_again

SpecRerunCalls == InitCalls /\ [][NextRerunCalls]_vars

----------------------------------------------------------------------------
(* MaterializeOnParentUpdatedRule, evaluated directly on entity X, whose   *)
(* partition 1 has the parent partitions A1 and B1 and whose partition 2   *)
(* has A1 and, as a self-dependency, X1.  q holds the collaborators'       *)
(* answers: the candidates with a parent that has or will update, the      *)
(* parent partitions found updated after each child before any key is      *)
(* ignored, the parent partitions that will update on this tick, the runs  *)
(* of the parents' latest records, the previous tick's partitions with     *)
(* their evaluation data and the partitions materialized, requested or     *)
(* discarded since the previous tick.                                      *)

PreciseLimit == 100

MaxExcess == 2

(* partition counts: few, about half the limit, about the limit *)
Counts ==
    (0..MaxExcess)
    \cup (((PreciseLimit \div 2) - MaxExcess)..((PreciseLimit \div 2) + MaxExcess))
    \cup ((PreciseLimit - MaxExcess)..(PreciseLimit + MaxExcess))

CandidateKeys == {1, 2}

(* asset_graph.get_parents_partitions(...).parent_partitions *)
get_parents_partitions(partition_key) ==
    IF partition_key = 1 THEN {<<"A", 1>>, <<"B", 1>>}
    ELSE {<<"A", 1>>, <<"X", 1>>}

AllParentPartitions ==
    UNION {get_parents_partitions(k) : k \in CandidateKeys}

(* the precise check decided on the parent partitions alone *)
precise_check_on_parents_alone(respect, parent_asset_partitions_len, subset_size) ==
    respect /\ parent_asset_partitions_len < PreciseLimit

(* the respect_materialization_data_versions argument of                   *)
(* get_parent_asset_partitions_updated_after_child                         *)
precise_check(respect, parent_asset_partitions_len, subset_size) ==
    respect /\ parent_asset_partitions_len + subset_size < PreciseLimit

(* instance_queryer.get_parent_asset_partitions_updated_after_child *)
get_parent_asset_partitions_updated_after_child(q, partition_key, ignored_parent_keys) ==
    {parent \in q.updated_after_child[partition_key] :
         parent[1] \notin ignored_parent_keys}

(* context.add_evaluation_data_from_previous_tick: this tick's partitions  *)
(* with their data, united with the previous tick's outside ignore_subset  *)
add_evaluation_data_from_previous_tick(q, with_evaluation_data, ignore_subset) ==
    LET subsets_with_metadata ==
            with_evaluation_data
            \cup {e \in q.previous : e.partition_key \notin ignore_subset}
    IN  [true_subset |-> {e.partition_key : e \in subsets_with_metadata},
         subsets_with_metadata |-> subsets_with_metadata]

(* the rule ignoring no parent key *)
ignored_parent_keys_none(q) ==
    {}

(* ignored_parent_keys={context.asset_key} *)
ignored_parent_keys(q) ==
    {q.asset_key}

(* the rule leaving the parents unfiltered *)
filtered_parents_all(rule, q, parents) ==
    parents

(* updated_parent_filter.passes(context, parents) if there is a filter *)
filtered_parents(rule, q, parents) ==
    IF rule.has_filter
    THEN passes(rule.updated_parent_filter,
                [q EXCEPT !.asset_partitions = parents]).value
    ELSE parents

(* the rule carrying the previous tick's data whatever happened since *)
ignore_subset_nothing(q) ==
    {}

(* ignore_subset of the carry-forward *)
ignore_subset(q) ==
    q.materialized_requested_or_discarded_since_previous_tick_subset

MaterializeOnParentUpdatedRule_evaluate(rule, q) ==
    LET subset_to_evaluate == q.candidate_parent_has_or_will_update_subset
            asset_partitions_by_updated_parents ==
            {x \in AllParentPartitions \X subset_to_evaluate :
                 x[1] \in get_parent_asset_partitions_updated_after_child(
                              q, x[2], ignored_parent_keys(q))}
        asset_partitions_by_will_update_parents ==
            {x \in AllParentPartitions \X subset_to_evaluate :
                 /\ x[1] \in get_parents_partitions(x[2])
                 /\ x[1] \in q.will_update}
        updated_and_will_update_parents ==
            {x[1] : x \in asset_partitions_by_updated_parents
                          \cup asset_partitions_by_will_update_parents}
        filtered_updated_and_will_update_parents ==
            filtered_parents(rule, q, updated_and_will_update_parents)
        updated_parent_assets(k) ==
            {y[1][1] : y \in
                 {x \in asset_partitions_by_updated_parents :
                      /\ x[2] = k
                      /\ x[1] \in filtered_updated_and_will_update_parents}}
        will_update_parent_assets(k) ==
            {y[1][1] : y \in
                 {x \in asset_partitions_by_will_update_parents :
                      /\ x[2] = k
                      /\ x[1] \in filtered_updated_and_will_update_parents}}
        asset_partitions_by_evaluation_data ==
            {[partition_key |-> k,
              updated_asset_keys |-> updated_parent_assets(k),
              will_update_asset_keys |-> will_update_parent_assets(k)] :
                 k \in {x \in subset_to_evaluate :
                            updated_parent_assets(x)
                            \cup will_update_parent_assets(x) # {}}}
    IN  add_evaluation_data_from_previous_tick(
            q, asset_partitions_by_evaluation_data, ignore_subset(q))

(* the evaluation data a carried partition had on the previous tick *)
PreviousData(k) ==
    [partition_key |-> k, updated_asset_keys |-> {"A", "B"},
     will_update_asset_keys |-> {}]

ParentUpdatedAnswer(subset, up1, up2, wu, tagged, daemon_tags, previous, ignore) ==
    [asset_key |-> "X",
     candidate_parent_has_or_will_update_subset |-> subset,
     updated_after_child |-> [k \in CandidateKeys |-> IF k = 1 THEN up1 ELSE up2],
     will_update |-> wu,
     asset_partitions |-> {},
     latest_run |-> [parent \in AllParentPartitions |->
                         IF parent \in tagged THEN 1 ELSE MaxRuns],
     run_tags |-> [r \in RunIds |-> IF r = 1 THEN {"team=t"} ELSE {}],
     auto_materialize_run_tags |-> daemon_tags,
     previous |-> {PreviousData(k) : k \in previous},
     materialized_requested_or_discarded_since_previous_tick_subset |-> ignore]

Call_parent_updated_evaluate(rule, q) ==
    /\ call = NoCall
    /\ call' = [op |-> "parent_updated", rule |-> rule, q |-> q,
                result |-> MaterializeOnParentUpdatedRule_evaluate(rule, q)]
    /\ UNCHANGED <<now, pdef, materialized, matSince, backfill, policy, prev, pc,
                   is_root, parentUpd, history, pass>>

Call_precise_check(respect, parent_asset_partitions_len, subset_size) ==
    /\ call = NoCall
    /\ call' = [op |-> "precise_check", respect |-> respect,
                parent_asset_partitions_len |-> parent_asset_partitions_len,
                subset_size |-> subset_size,
                result |-> precise_check(respect, parent_asset_partitions_len,
                                         subset_size)]
    /\ UNCHANGED <<now, pdef, materialized, matSince, backfill, policy, prev, pc,
                   is_root, parentUpd, history, pass>>

NextParentUpdatedCalls ==
    \/ /\ call = NoCall
       /\ \E has_filter \in BOOLEAN, subset \in SUBSET CandidateKeys,
             up1 \in SUBSET get_parents_partitions(1),
             up2 \in SUBSET get_parents_partitions(2),
             wu \in SUBSET {<<"A", 1>>, <<"B", 1>>},
             tagged \in SUBSET {<<"A", 1>>, <<"B", 1>>},
             daemon_tags \in SUBSET {"team=t"},
             previous \in SUBSET CandidateKeys,
             ignore \in SUBSET CandidateKeys :
              Call_parent_updated_evaluate(
                  [has_filter |-> has_filter,
                   updated_parent_filter |->
                       [latest_run_required_tags |-> Tags({"team=t"})]],
                  ParentUpdatedAnswer(subset, up1, up2, wu, tagged,
                                      daemon_tags, previous, ignore))
    \/ /\ call = NoCall
       /\ \E respect \in BOOLEAN, n \in Counts, size \in Counts :
              Call_precise_check(respect, n, size)

SpecParentUpdatedCalls == InitCalls /\ [][NextParentUpdatedCalls]_vars

----------------------------------------------------------------------------
(* The skip rules that wait on parents: SkipOnParentOutdatedRule,          *)
(* SkipOnParentMissingRule, SkipOnNotAllParentsUpdatedRule and             *)
(* SkipOnRequiredButNonexistentParentsRule, called on the candidates 1 and *)
(* 2 of entity X.  Each rule examines the candidates that were not         *)
(* evaluated on the previous tick or whose parents changed or will change, *)
(* finds the keys each of them waits on, and merges the result with the    *)
(* previous tick's outside the examined subset.                            *)

(* context.candidates_not_evaluated_on_previous_tick_subset                *)
(*     | context.candidate_parent_has_or_will_update_subset                *)
subset_to_evaluate(q) ==
    q.candidates_not_evaluated_on_previous_tick_subset
    \cup q.candidate_parent_has_or_will_update_subset

(* context.get_parents_that_will_not_be_materialized_on_current_tick *)
get_parents_that_will_not_be_materialized_on_current_tick(q, candidate) ==
    {parent \in get_parents_partitions(candidate) : parent \notin q.will_update}

(* the rule asking the ancestors of ignorable parents too *)
outdated_ancestors_of_every_parent(q, candidate) ==
    UNION {q.get_outdated_ancestors[parent] : parent \in
               get_parents_that_will_not_be_materialized_on_current_tick(
                   q, candidate)}

(* SkipOnParentOutdatedRule: the outdated ancestors of the parents whose   *)
(* relationship to the entity is not ignorable for outdatedness            *)
outdated_ancestors(q, candidate) ==
    UNION {q.get_outdated_ancestors[parent] : parent \in
               {p \in get_parents_that_will_not_be_materialized_on_current_tick(
                          q, candidate) :
                    p[1] \notin q.ignorable_for_outdated}}

(* the rule waiting on non-observable sources too *)
missing_parent_asset_keys_with_sources(q, candidate) ==
    AssetKeysOf(
        {parent \in get_parents_that_will_not_be_materialized_on_current_tick(
                        q, candidate) :
             parent \notin q.has_materialization_or_observation})

(* SkipOnParentMissingRule: the keys of the parents without a record,      *)
(* non-observable sources apart                                            *)
missing_parent_asset_keys(q, candidate) ==
    AssetKeysOf(
        {parent \in get_parents_that_will_not_be_materialized_on_current_tick(
                        q, candidate) :
             /\ ~(parent[1] \in q.is_source /\ parent[1] \notin q.is_observable)
             /\ parent \notin q.has_materialization_or_observation})

(* SkipOnRequiredButNonexistentParentsRule *)
nonexistent_parent_keys(q, candidate) ==
    AssetKeysOf(q.required_but_nonexistent_parents_partitions[candidate])

(* the keys the candidate waits on, by the rule's class *)
waiting_on(rule, q, candidate) ==
    CASE rule.class = "SkipOnParentOutdatedRule" ->
             outdated_ancestors(q, candidate)
      [] rule.class = "SkipOnParentMissingRule" ->
             missing_parent_asset_keys(q, candidate)
      [] rule.class = "SkipOnNotAllParentsUpdatedRule" ->
             non_updated_parent_keys(
                 rule,
                 [asset_key |-> q.asset_key,
                  parent_asset_keys |-> AssetKeysOf(AllParentPartitions),
                  parent_partitions |-> get_parents_partitions(candidate),
                  updated_after_child |->
                      get_parent_asset_partitions_updated_after_child(
                          q, candidate, {}),
                  parent_will_update |-> q.will_update])
      [] OTHER -> nonexistent_parent_keys(q, candidate)

(* the rules carrying the previous tick's result for every partition *)
evaluate_waiting_on_carrying_all(rule, q) ==
    add_evaluation_data_from_previous_tick(
        q,
        {[partition_key |-> candidate,
          waiting_on_asset_keys |-> waiting_on(rule, q, candidate)] :
             candidate \in {k \in subset_to_evaluate(q) :
                                waiting_on(rule, q, k) # {}}},
        {})

(* evaluate_for_asset of the four rules *)
evaluate_waiting_on(rule, q) ==
    add_evaluation_data_from_previous_tick(
        q,
        {[partition_key |-> candidate,
          waiting_on_asset_keys |-> waiting_on(rule, q, candidate)] :
             candidate \in {k \in subset_to_evaluate(q) :
                                waiting_on(rule, q, k) # {}}},
        subset_to_evaluate(q))

(* the context of a call: what the previous tick left and what the parents *)
(* do on this one; every collaborator answers that nothing is the matter   *)
WaitingAnswer(not_evaluated, parent_changed, previous, handled, wu) ==
    [asset_key |-> "X",
     candidates_not_evaluated_on_previous_tick_subset |-> not_evaluated,
     candidate_parent_has_or_will_update_subset |-> parent_changed,
     previous |-> {[partition_key |-> k, waiting_on_asset_keys |-> {"A", "B"}] :
                       k \in previous},
     materialized_requested_or_discarded_since_previous_tick_subset |-> handled,
     will_update |-> wu,
     get_outdated_ancestors |-> [parent \in AllParentPartitions |-> {}],
     ignorable_for_outdated |-> {},
     is_source |-> {"A"},
     is_observable |-> {"A"},
     has_materialization_or_observation |-> AllParentPartitions,
     required_but_nonexistent_parents_partitions |->
         [k \in CandidateKeys |-> {}],
     updated_after_child |-> [k \in CandidateKeys |-> get_parents_partitions(k)]]

Call_evaluate_waiting_on(rule, q) ==
    /\ call = NoCall
    /\ call' = [op |-> "waiting_on", rule |-> rule, q |-> q,
                result |-> evaluate_waiting_on(rule, q)]
    /\ UNCHANGED <<now, pdef, materialized, matSince, backfill, policy, prev, pc,
                   is_root, parentUpd, history, pass>>

NextWaitingCalls ==
    /\ call = NoCall
    /\ \E not_evaluated \in SUBSET CandidateKeys,
          parent_changed \in SUBSET CandidateKeys,
          previous \in SUBSET CandidateKeys,
          handled \in SUBSET CandidateKeys,
          wu \in SUBSET {<<"A", 1>>, <<"B", 1>>} :
          LET q == WaitingAnswer(not_evaluated, parent_changed, previous,
                                 handled, wu)
          IN  \/ \E outdated \in [AllParentPartitions -> {{}, {"R"}}],
                    ignorable \in SUBSET {"A"} :
                     Call_evaluate_waiting_on(
                         [class |-> "SkipOnParentOutdatedRule",
                          require_update_for_all_parent_partitions |-> FALSE],
                         [q EXCEPT !.get_outdated_ancestors = outdated,
                                   !.ignorable_for_outdated = ignorable])
              \/ \E recorded \in SUBSET AllParentPartitions,
                    observable \in SUBSET {"A"} :
                     Call_evaluate_waiting_on(
                         [class |-> "SkipOnParentMissingRule",
                          require_update_for_all_parent_partitions |-> FALSE],
                         [q EXCEPT !.has_materialization_or_observation = recorded,
                                   !.is_observable = observable])
              \/ \E require_all \in BOOLEAN,
                    up1 \in SUBSET get_parents_partitions(1),
                    up2 \in SUBSET get_parents_partitions(2) :
                     Call_evaluate_waiting_on(
                         [class |-> "SkipOnNotAllParentsUpdatedRule",
                          require_update_for_all_parent_partitions |-> require_all],
                         [q EXCEPT !.updated_after_child =
                              [k \in CandidateKeys |-> IF k = 1 THEN up1 ELSE up2]])
              \/ \E nonexistent \in [CandidateKeys -> SUBSET {<<"A", 2>>}] :
                     Call_evaluate_waiting_on(
                         [class |-> "SkipOnRequiredButNonexistentParentsRule",
                          require_update_for_all_parent_partitions |-> FALSE],
                         [q EXCEPT !.required_but_nonexistent_parents_partitions =
                              nonexistent])

SpecWaitingCalls == InitCalls /\ [][NextWaitingCalls]_vars

----------------------------------------------------------------------------
(* sling_assets.  A stream name is the sequence of its characters; the     *)
(* replication config is the sequence of its streams, in the order of the  *)
(* mapping, each with its key and the asset key configured in its meta     *)
(* (the empty sequence: none).                                             *)

MaxLen == 2

StreamChars == {"a", ".", "-", "_", "\""}

Streams == UNION {[1..n -> StreamChars] : n \in 1..MaxLen}

(* get_streams_from_replication *)
get_streams_from_replication(replication) ==
    [i \in DOMAIN replication |->
         IF replication[i].asset_key_config # <<>>
         THEN replication[i].asset_key_config
         ELSE replication[i].key]

(* stream.replace('"', "") and re.sub(r"[^a-zA-Z0-9_.]", "_", stream) *)
sanitized(stream) ==
    LET unquoted == SelectSeq(stream, LAMBDA ch : ch # "\"")
    IN  [i \in DOMAIN unquoted |->
             IF unquoted[i] \in {"a", "_", "."} THEN unquoted[i] ELSE "_"]

RECURSIVE split(_)
(* str.split("."): the components between the dots *)
split(stream) ==
    IF \A i \in DOMAIN stream : stream[i] # "." THEN <<stream>>
    ELSE LET dot == CHOOSE i \in DOMAIN stream :
                        /\ stream[i] = "."
                        /\ \A j \in 1..(i - 1) : stream[j] # "."
         IN  <<SubSeq(stream, 1, dot - 1)>>
             \o split(SubSeq(stream, dot + 1, Len(stream)))

sling_stream_to_output_name(stream) ==
    LET components == split(sanitized(stream))
    IN  components[Len(components)]

sling_stream_to_asset_key(stream) ==
    split(sanitized(stream))

(* the outs of sling_assets: the mapping filled stream after stream *)
sling_assets(replication) ==
    LET streams == get_streams_from_replication(replication)
        outnames == {sling_stream_to_output_name(streams[i]) :
                         i \in DOMAIN streams}
        last(outname) ==
            CHOOSE i \in DOMAIN streams :
                /\ sling_stream_to_output_name(streams[i]) = outname
                /\ \A j \in DOMAIN streams :
                       sling_stream_to_output_name(streams[j]) = outname
                           => j <= i
    IN  [outname \in outnames |->
             sling_stream_to_asset_key(streams[last(outname)])]

Call_sling_assets(replication) ==
    /\ call = NoCall
    /\ call' = [op |-> "sling_assets", replication |-> replication,
                result |-> sling_assets(replication)]
    /\ UNCHANGED <<now, pdef, materialized, matSince, backfill, policy, prev, pc,
                   is_root, parentUpd, history, pass>>

(* two streams with distinct keys, neither, one or both with a configured  *)
(* asset key                                                               *)
NextSlingCalls ==
    /\ call = NoCall
    /\ \E k1 \in Streams, k2 \in Streams,
          c1 \in {<<>>, <<"a", "_">>}, c2 \in {<<>>, <<"_", "a">>} :
           /\ k1 # k2
           /\ Call_sling_assets(<<[key |-> k1, asset_key_config |-> c1],
                                  [key |-> k2, asset_key_config |-> c2]>>)

SpecSlingCalls == InitCalls /\ [][NextSlingCalls]_vars

----------------------------------------------------------------------------
(* Properties of a tick *)

Disjoint(A, B) == A \cap B = {}

Evaluated == pc = "evaluated"

C8_BackfillSkipsAll ==
    (Evaluated /\ policy.has_backfill /\ policy.backfill.all_partitions) =>
        IF backfill \cap get_partition_keys(pdef) # {}
        THEN prev.skip_true = prev.skip_candidates
        ELSE prev.skip_true = {}

C8_Witness ==
    /\ Evaluated /\ policy.has_backfill /\ policy.backfill.all_partitions
    /\ backfill \cap get_partition_keys(pdef) # {}
    /\ prev.skip_true \ backfill # {}

(* C10: on a root entity the missing rule's true subset is the candidate   *)
(* subset minus the valid part of the handled subset, the handled subset   *)
(* being what was materialized since the previous tick, what the previous  *)
(* tick requested and the carried handled state (all-time materialized     *)
(* partitions when nothing is carried).                                    *)
C10_Handled ==
    IF prev.exists /\ prev.extra_state.has
    THEN matSince \cup prev.requested \cup prev.extra_state.value
    ELSE matSince \cup (IF prev.exists THEN prev.requested ELSE {})
         \cup materialized

C3_CronPersists ==
    [][(pc' = "evaluated" /\ policy.has_cron /\ prev.exists) =>
          \A p \in prev.cron_true :
              (/\ p \in get_partition_keys(pdef)
               /\ p \notin matSince
               /\ p \notin prev.requested
               /\ p \notin prev.discard_true) => p \in prev'.cron_true]_vars

C3_Witness ==
    /\ Evaluated /\ policy.has_cron
    /\ prev.cron_true \ prev.cron_new # {}

----------------------------------------------------------------------------
(* Properties of the cron rule's methods *)

(* the cron ticks of the schedule after time lo, up to and including hi *)
TicksBetween(cron, lo, hi) == {t \in (lo + 1)..hi : t % cron = 0}

IsIncreasing(s) == \A i \in 1..(Len(s) - 1) : s[i] < s[i + 1]

(* the partition of a time scheme whose window ended most recently by t *)
MostRecentCompleted(pd, t) ==
    {k \in pd.keys : /\ k * Width <= t
                     /\ \A j \in pd.keys : j * Width <= t => j <= k}

FirstEver(c) == ~c.ctx.has_previous_evaluation_state

C5_MissedTicks ==
    call.op = "missed_cron_ticks" =>
        LET cron == call.rule.cron_schedule
            t == call.ctx.evaluation_time
        IN  IF FirstEver(call)
            THEN /\ Len(call.result) = 1
                 /\ call.result[1] < t
                 /\ call.result[1] % cron = 0
                 /\ TicksBetween(cron, call.result[1], t - 1) = {}
            ELSE /\ IsIncreasing(call.result)
                 /\ Range(call.result) =
                        TicksBetween(cron,
                                     call.ctx.previous_evaluation_timestamp, t)

C5_Witness ==
    /\ call.op = "missed_cron_ticks"
    /\ ~FirstEver(call)
    /\ Len(call.result) >= 2
    /\ call.result[Len(call.result)] = call.ctx.evaluation_time

(* C6: on a time-partitioned entity without all_partitions the cron rule   *)
(* newly selects, for each missed tick, the partition completed most       *)
(* recently as of that tick; a first-ever tick selects at most that one.   *)
C6_LastCompletedPerTick ==
    (/\ call.op = "get_new_asset_partitions_to_request"
     /\ ~call.rule.all_partitions
     /\ call.ctx.partitions_def.kind = "time") =>
        LET cron == call.rule.cron_schedule
            t == call.ctx.evaluation_time
            pd == call.ctx.partitions_def
            first == CHOOSE x \in (t - cron)..(t - 1) : x % cron = 0
        IN  IF FirstEver(call)
            THEN /\ call.result = MostRecentCompleted(pd, first)
                 /\ Cardinality(call.result) <= 1
            ELSE call.result =
                     UNION {MostRecentCompleted(pd, x) :
                                x \in TicksBetween(cron,
                                    call.ctx.previous_evaluation_timestamp, t)}

C6_Witness ==
    /\ call.op = "get_new_asset_partitions_to_request"
    /\ ~call.rule.all_partitions
    /\ call.ctx.partitions_def.kind = "time"
    /\ FirstEver(call)
    /\ Cardinality(call.ctx.partitions_def.keys) >= 2
    /\ Cardinality(call.result) = 1
    /\ \E k \in call.ctx.partitions_def.keys :
           k \notin call.result /\ k * Width <= call.ctx.evaluation_time

----------------------------------------------------------------------------
(* Properties of rule instances *)

SameFields(a, b) ==
    /\ Len(a.fields) = Len(b.fields)
    /\ \A i \in 1..Len(a.fields) :
           /\ a.fields[i].tag = b.fields[i].tag
           /\ a.fields[i].val = b.fields[i].val

(* C2: rules of different classes are unequal, whatever their fields;      *)
(* rules of one class with equal fields are equal and hash equally.        *)
C2_RuleEquality ==
    call.op = "eq" =>
        /\ call.a.class # call.b.class => ~call.result
        /\ (call.a.class = call.b.class /\ SameFields(call.a, call.b)) =>
               (call.result /\ call.hash_a = call.hash_b)

C2_Witness ==
    /\ call.op = "eq"
    /\ call.a.class = "SkipOnNotAllParentsUpdatedRule"
    /\ call.b.class = "SkipOnBackfillInProgressRule"
    /\ SameFields(call.a, call.b)
    /\ ~call.result

----------------------------------------------------------------------------
(* Properties of the discard rule *)

(* C7: with limit L the discard rule discards max(0, |C| - L) of its       *)
(* candidates C, all of them later in the order than every candidate it    *)
(* keeps; the iteration order of C has no part in the result.              *)
C7_DiscardBeyondLimit ==
    call.op = "discard" =>
        LET C == Range(call.candidates)
            excess == Cardinality(C) - call.limit
        IN  /\ call.result \subseteq C
            /\ Cardinality(call.result) = IF excess > 0 THEN excess ELSE 0
            /\ \A kept \in C \ call.result, d \in call.result : kept < d

C7_Witness ==
    /\ call.op = "discard"
    /\ call.limit = 2
    /\ Len(call.candidates) = 5
    /\ ~IsIncreasing(call.candidates)
    /\ Cardinality(call.result) = 3

----------------------------------------------------------------------------
(* Properties of the not-all-parents-updated rule *)

(* C9: without require_update_for_all_parent_partitions the non-updated    *)
(* set of a candidate holds the parent entities, other than the            *)
(* candidate's own, of which no partition has updated since the child and  *)
(* none will update on this tick.                                          *)
C9_NoPartitionUpdated ==
    (/\ call.op = "non_updated_parent_keys"
     /\ ~call.rule.require_update_for_all_parent_partitions) =>
        call.result =
            {key \in call.q.parent_asset_keys \ {call.q.asset_key} :
                 /\ \A ap \in call.q.updated_after_child : ap[1] # key
                 /\ \A ap \in call.q.parent_will_update : ap[1] # key}

C9_Witness ==
    /\ call.op = "non_updated_parent_keys"
    /\ ~call.rule.require_update_for_all_parent_partitions
    /\ call.q.parent_partitions = PartitionsOf("A") \cup PartitionsOf("B")
    /\ Cardinality(call.q.updated_after_child) = 1
    /\ call.q.parent_will_update = {}
    /\ call.result = {"B"}

----------------------------------------------------------------------------
(* Properties of the missing rule on an entity with parents *)

(* C11: on an entity with parents every partition in the missing rule's    *)
(* true subset of a tick has no materialization or observation record at   *)
(* that tick and has a parent that has updated or will update.             *)
C11_MissingOnlyUnmaterialized ==
    [][(pc' = "evaluated" /\ policy.has_missing /\ ~is_root) =>
           \A k \in prev'.missing_true :
               k \notin materialized /\ k \in parentUpd]_vars

----------------------------------------------------------------------------
(* Properties of the missing rule on a root entity, ticks observed *)

(* C12: a partition that came to exist after the previous tick and has     *)
(* been neither materialized nor requested is in the missing rule's true   *)
(* subset of this tick.                                                    *)
C12_NewPartitionIsMissing ==
    (pc = "evaluated" /\ policy.has_missing /\ is_root) =>
        \A k \in history.new_partitions \cap prev.materialize_candidates :
            (k \notin materialized
             /\ k \notin history.requested \ prev.requested)
                => k \in prev.missing_true

C12_Witness ==
    /\ pc = "evaluated" /\ policy.has_missing /\ is_root
    /\ \E k \in history.new_partitions \cap prev.missing_true :
           /\ k \notin materialized
           /\ k \notin history.requested \ prev.requested
    /\ prev.extra_state.value \ prev.requested # {}

----------------------------------------------------------------------------
(* Properties of every rule's result *)

Carried(subset) == IF prev.exists THEN subset ELSE {}

C14_OnlyExistingPartitions ==
    pc = "evaluated" =>
        prev.cron_true \cup prev.missing_true \cup prev.skip_true
            \cup prev.discard_true \subseteq get_partition_keys(pdef)

----------------------------------------------------------------------------
(* Properties of an evaluation run twice *)

----------------------------------------------------------------------------
(* Properties of snapshots *)

----------------------------------------------------------------------------
(* Properties of the run-tag filter *)

(* the input partitions that will not update and have no latest record *)
Unrecorded(q) ==
    {ap \in q.asset_partitions \ q.will_update : q.latest_run[ap] = NoRun}

(* C17: with required tags set, an input partition that will not update    *)
(* on this tick and has no latest materialization or observation record    *)
(* makes the filter raise: it returns no result.                           *)
C17_UnrecordedRaises ==
    (/\ call.op = "passes"
     /\ call.filter.latest_run_required_tags # NoTags
     /\ Unrecorded(call.q) # {}) =>
        call.result.raised /\ call.result.value = {}

C17_Witness ==
    /\ call.op = "passes"
    /\ call.filter.latest_run_required_tags = Tags({"team=t"})
    /\ Unrecorded(call.q) # {}
    /\ call.q.asset_partitions \ Unrecorded(call.q) # {}
    /\ call.result.raised

----------------------------------------------------------------------------
(* Properties of the pass over the entities *)

(* C18: an entity is evaluated after all its parents, and every answer a   *)
(* rule got about a parent partition updating on this tick is the parent's *)
(* decision as it stands from then to the end of the tick.                 *)
C18_ParentsFirst ==
    /\ \A key \in pass.evaluated : ParentsOf(key) \subseteq pass.evaluated
    /\ \A a \in pass.answers :
           a.will_update <=> (a.parent \in pass.to_request)

C18_Witness ==
    /\ ~pass.active
    /\ pass.evaluated = Entities
    /\ [child |-> "X", parent |-> <<"B", 1>>, will_update |-> TRUE]
           \in pass.answers
    /\ [child |-> "X", parent |-> <<"A", 1>>, will_update |-> FALSE]
           \in pass.answers

----------------------------------------------------------------------------
(* Properties of the rule constructors *)

(* the value an argument of the call stands for *)
ArgumentOr(arg, default) == IF arg # Default THEN arg[1] ELSE default

(* C19: materialize_on_cron raises a parameter error, and returns no rule, *)
(* when the schedule is no cron string or the timezone is not a known one; *)
(* otherwise it returns the cron rule of the given schedule, timezone and  *)
(* all_partitions, the timezone being UTC and all_partitions false when    *)
(* left out.                                                               *)
C19_CronConstructor ==
    call.op = "materialize_on_cron" =>
        LET timezone == ArgumentOr(call.timezone, "UTC")
            all_partitions == ArgumentOr(call.all_partitions, FALSE)
        IN  IF call.cron_schedule = NotCron
               \/ timezone \notin all_timezones_set
            THEN call.result.raised
            ELSE /\ ~call.result.raised
                 /\ call.result.rule.cron_schedule = call.cron_schedule
                 /\ call.result.rule.timezone = timezone
                 /\ call.result.rule.all_partitions = all_partitions

C19_Witness ==
    /\ call.op = "materialize_on_cron"
    /\ call.cron_schedule # NotCron
    /\ call.timezone = Given("Mars/Olympus")
    /\ call.result.raised
    /\ call.result.param = "timezone"

----------------------------------------------------------------------------
(* Properties of the cron rule's new selections, by kind of scheme *)

(* the partitions of the scheme that no other partition follows *)
MostRecent(pd) ==
    {k \in get_partition_keys(pd) : \A j \in get_partition_keys(pd) : j <= k}

(* C20: the cron rule newly selects nothing when no cron tick was missed;  *)
(* otherwise the single implicit partition of an unpartitioned entity,     *)
(* every existing partition when all_partitions is set, and exactly the    *)
(* most recent partition of a scheme without a time dimension.             *)
C20_SelectionByKind ==
    call.op = "get_new_asset_partitions_to_request" =>
        LET pd == call.ctx.partitions_def
        IN  IF missed_cron_ticks(call.rule, call.ctx) = <<>>
            THEN call.result = {}
            ELSE IF pd.kind = "none" THEN call.result = {NoKey}
            ELSE IF call.rule.all_partitions
            THEN call.result = get_partition_keys(pd)
            ELSE ~has_time_partitions_def(pd) =>
                     /\ call.result = MostRecent(pd)
                     /\ Cardinality(call.result) = 1

----------------------------------------------------------------------------
(* Properties of the backfill skip rule without all_partitions *)

(* C21: without all_partitions the backfill skip rule skips exactly the    *)
(* candidates that are currently valid partitions targeted by the active   *)
(* backfill: no untargeted candidate, and no targeted partition that is    *)
(* not a candidate.                                                        *)
C21_BackfillSkipsTargeted ==
    (Evaluated /\ policy.has_backfill /\ ~policy.backfill.all_partitions) =>
        /\ prev.skip_true =
               prev.skip_candidates
               \cap (backfill \cap get_partition_keys(pdef))
        /\ \A k \in prev.skip_candidates \ backfill : k \notin prev.skip_true
        /\ \A k \in backfill \ prev.skip_candidates : k \notin prev.skip_true

C21_Witness ==
    /\ Evaluated /\ policy.has_backfill /\ ~policy.backfill.all_partitions
    /\ prev.skip_true # {}
    /\ prev.skip_candidates \ backfill # {}
    /\ prev.skip_true = backfill

----------------------------------------------------------------------------
(* Properties of the not-all-parents-updated rule requiring all partitions *)

(* C22: with require_update_for_all_parent_partitions the non-updated set  *)
(* of a candidate holds the parent entities with a parent partition of the *)
(* candidate that has neither updated since the child nor will update on   *)
(* this tick; with or without the flag the candidate's own entity is not   *)
(* in the set, and the candidate is skipped exactly when the set is not    *)
(* empty.                                                                  *)
C22_AnyPartitionNotUpdated ==
    call.op = "non_updated_parent_keys" =>
        /\ call.rule.require_update_for_all_parent_partitions =>
               call.result =
                   {key \in Entities \ {call.q.asset_key} :
                        \E ap \in call.q.parent_partitions :
                            /\ ap[1] = key
                            /\ ap \notin call.q.updated_after_child
                            /\ ap \notin call.q.parent_will_update}
        /\ call.q.asset_key \notin call.result
        /\ call.skipped <=> call.result # {}

C22_Witness ==
    /\ call.op = "non_updated_parent_keys"
    /\ call.rule.require_update_for_all_parent_partitions
    /\ call.q.parent_partitions =
           PartitionsOf("A") \cup PartitionsOf("B") \cup PartitionsOf("X")
    /\ call.q.updated_after_child = PartitionsOf("B") \cup {<<"A", 1>>}
    /\ call.q.parent_will_update = {}
    /\ call.result = {"A"}
    /\ call.skipped

----------------------------------------------------------------------------
(* Properties of the missing rule's handled state *)

(* C23: on a root entity the missing rule asks for the all-time            *)
(* materialized partitions only on a tick that finds no carried handled    *)
(* state; every tick of the rule leaves carried state behind, so that a    *)
(* tick following another one never asks.                                  *)
C23_QueryOnlyWithoutCarriedState ==
    [][(pc' = "evaluated" /\ policy.has_missing /\ is_root) =>
           /\ prev'.missing_queried =>
                  ~(prev.exists /\ prev.extra_state.has)
           /\ prev'.extra_state.has
           /\ prev.exists => ~prev'.missing_queried]_vars

C23_Witness ==
    /\ Evaluated /\ policy.has_missing /\ is_root
    /\ ~prev.missing_queried
    /\ prev.missing_true # {}
    /\ prev.extra_state.has
    /\ prev.extra_state.value = {}

----------------------------------------------------------------------------
(* Properties of the missing rule on an entity with parents, as a formula *)

(* the candidates with a parent that has updated or will update and        *)
(* without a materialization or observation record, as the tick finds them *)
NewlyMissing ==
    {k \in (get_partition_keys(pdef) \cap parentUpd) : k \notin materialized}

(* C25, as stated: on an entity with parents the missing rule's true       *)
(* subset is the newly missing candidates united with the previous tick's  *)
(* true subset, minus the set this tick requests, and no extra state is    *)
(* carried.                                                                *)
C25_MinusThisTicksRequests ==
    [][(pc' = "evaluated" /\ policy.has_missing /\ ~is_root) =>
           /\ prev'.missing_true =
                  (NewlyMissing \cup prev.missing_true) \ prev'.requested
           /\ ~prev'.extra_state.has]_vars

(* C25, amended: on an entity with parents the missing rule's true subset  *)
(* is the newly missing candidates united with the previous tick's true    *)
(* subset, minus the set the previous tick requested, and no extra state   *)
(* is carried.                                                             *)
C25_MinusPreviousTicksRequests ==
    [][(pc' = "evaluated" /\ policy.has_missing /\ ~is_root) =>
           /\ prev'.missing_true =
                  (NewlyMissing \cup prev.missing_true) \ prev.requested
           /\ ~prev'.extra_state.has]_vars

C25_Witness ==
    /\ Evaluated /\ policy.has_missing /\ ~is_root
    /\ prev.missing_true \cap materialized # {}
    /\ prev.requested # {}
    /\ prev.missing_true \ prev.requested # {}
    /\ ~prev.extra_state.has

----------------------------------------------------------------------------
(* Properties of the parent-updated rule *)

(* C26, as stated: the comparison of a candidate's parents is precise      *)
(* (data-version-aware) exactly when data-version checking is enabled and  *)
(* the candidate has fewer than 100 parent partitions.                     *)
C26_PreciseBelowLimit ==
    call.op = "precise_check" =>
        (call.result <=>
             /\ call.respect
             /\ call.parent_asset_partitions_len < PreciseLimit)

(* C26, amended: the comparison is precise exactly when data-version       *)
(* checking is enabled and the candidate's parent partitions and the       *)
(* candidates under evaluation are together fewer than 100.                *)
C26_PreciseBelowLimitTogether ==
    call.op = "precise_check" =>
        (call.result <=>
             /\ call.respect
             /\ call.parent_asset_partitions_len + call.subset_size
                    < PreciseLimit)

C26_Witness ==
    /\ call.op = "precise_check"
    /\ call.respect
    /\ call.parent_asset_partitions_len < PreciseLimit
    /\ call.subset_size < PreciseLimit
    /\ call.parent_asset_partitions_len + call.subset_size = PreciseLimit
    /\ ~call.result

(* the parent passes the rule's filter: the latest run of an updated       *)
(* parent carries the required tags, the daemon's runs do for a parent     *)
(* that will update                                                        *)
PassesFilter(rule, q, parent) ==
    LET required == rule.updated_parent_filter.latest_run_required_tags.items
    IN  IF parent \in q.will_update
        THEN required \subseteq ({AUTO_MATERIALIZE_TAG}
                                 \cup q.auto_materialize_run_tags)
        ELSE required \subseteq q.run_tags[q.latest_run[parent]]

(* the parents of the candidate, other than its own entity's, found        *)
(* updated since the candidate, and its parents that will update           *)
UpdatedParents(q, k) ==
    {parent \in q.updated_after_child[k] : parent[1] # q.asset_key}

WillUpdateParents(q, k) ==
    get_parents_partitions(k) \cap q.will_update

(* the previous tick's data that the merge carries over *)
CarriedData(q) ==
    {e \in q.previous :
         e.partition_key \notin
             q.materialized_requested_or_discarded_since_previous_tick_subset}

(* C27: a partition of the entity itself never counts as an updated or     *)
(* will-update parent: a candidate whose only changed parents are          *)
(* partitions of its own entity is in the true subset only if the previous *)
(* tick's result is carried over for it, and the entity's own key is in    *)
(* no updated or will-update keys of the evaluation data.                  *)
C27_SelfNeverCounts ==
    call.op = "parent_updated" =>
        LET q == call.q
        IN  /\ \A e \in call.result.subsets_with_metadata :
                   q.asset_key \notin
                       e.updated_asset_keys \cup e.will_update_asset_keys
            /\ \A k \in q.candidate_parent_has_or_will_update_subset :
                   UpdatedParents(q, k) \cup WillUpdateParents(q, k) = {}
                       => (k \in call.result.true_subset
                               => k \in {e.partition_key : e \in CarriedData(q)})

C27_Witness ==
    /\ call.op = "parent_updated"
    /\ 2 \in call.q.candidate_parent_has_or_will_update_subset
    /\ call.q.updated_after_child[2] = {<<call.q.asset_key, 1>>}
    /\ WillUpdateParents(call.q, 2) = {}
    /\ 2 \notin call.result.true_subset

(* C28: with an updated-parent filter the keys attributed to a candidate   *)
(* are those of its updated and will-update parents that pass the filter,  *)
(* and the candidate is newly true only if one of them passes; without a   *)
(* filter every updated or will-update parent counts.                      *)
C28_OnlyPassingParentsCount ==
    call.op = "parent_updated" =>
        LET q == call.q
            rule == call.rule
            counts(parent) == ~rule.has_filter \/ PassesFilter(rule, q, parent)
            found(k) ==
                [partition_key |-> k,
                 updated_asset_keys |->
                     {parent[1] : parent \in
                          {p \in UpdatedParents(q, k) : counts(p)}},
                 will_update_asset_keys |->
                     {parent[1] : parent \in
                          {p \in WillUpdateParents(q, k) : counts(p)}}]
            newly == {found(k) : k \in
                          {x \in q.candidate_parent_has_or_will_update_subset :
                               \E p \in UpdatedParents(q, x)
                                        \cup WillUpdateParents(q, x) :
                                   counts(p)}}
        IN  call.result.subsets_with_metadata = newly \cup CarriedData(q)

C28_Witness ==
    /\ call.op = "parent_updated"
    /\ call.rule.has_filter
    /\ 1 \in call.q.candidate_parent_has_or_will_update_subset
    /\ call.q.updated_after_child[1] = {<<"A", 1>>, <<"B", 1>>}
    /\ call.q.will_update = {}
    /\ PassesFilter(call.rule, call.q, <<"A", 1>>)
    /\ ~PassesFilter(call.rule, call.q, <<"B", 1>>)
    /\ [partition_key |-> 1, updated_asset_keys |-> {"A"},
        will_update_asset_keys |-> {}] \in call.result.subsets_with_metadata
    /\ 1 \notin {e.partition_key : e \in call.q.previous}

(* C29: a partition true on the previous tick stays true, with its         *)
(* previous evaluation data, unless it was materialized, requested or      *)
(* discarded since; in that case it is true only if this tick's evaluation *)
(* finds an updated or will-update parent for it.                          *)
C29_CarriedUnlessHandledSince ==
    call.op = "parent_updated" =>
        LET q == call.q
            handled ==
                q.materialized_requested_or_discarded_since_previous_tick_subset
            newly(k) ==
                /\ k \in q.candidate_parent_has_or_will_update_subset
                /\ \E p \in UpdatedParents(q, k) \cup WillUpdateParents(q, k) :
                       ~call.rule.has_filter \/ PassesFilter(call.rule, q, p)
        IN  \A e \in q.previous :
                IF e.partition_key \notin handled
                THEN /\ e.partition_key \in call.result.true_subset
                     /\ e \in call.result.subsets_with_metadata
                ELSE /\ e.partition_key \in call.result.true_subset
                            <=> newly(e.partition_key)
                     /\ e \in call.result.subsets_with_metadata
                            => newly(e.partition_key)

C29_Witness ==
    /\ call.op = "parent_updated"
    /\ {e.partition_key : e \in call.q.previous} = {1, 2}
    /\ call.q.materialized_requested_or_discarded_since_previous_tick_subset
           = {1}
    /\ call.result.true_subset = {2}
    /\ PreviousData(2) \in call.result.subsets_with_metadata

----------------------------------------------------------------------------
(* Properties of the skip rules that wait on parents *)

(* C30: a candidate examined on this tick (not evaluated on the previous   *)
(* tick, or with parents that changed or will change) is in the true       *)
(* subset of the rule exactly when the rule's condition holds for it on    *)
(* this tick, with this tick's data only, whatever its previous status;    *)
(* any other candidate has exactly the status and the evaluation data it   *)
(* had on the previous tick.                                               *)
C30_ExaminedAnewElseInherited ==
    call.op = "waiting_on" =>
        LET q == call.q
            examined ==
                q.candidates_not_evaluated_on_previous_tick_subset
                \cup q.candidate_parent_has_or_will_update_subset
            data(k) == {e \in call.result.subsets_with_metadata :
                            e.partition_key = k}
        IN  \A k \in CandidateKeys :
                IF k \in examined
                THEN /\ k \in call.result.true_subset
                            <=> waiting_on(call.rule, q, k) # {}
                     /\ data(k) \subseteq
                            {[partition_key |-> k,
                              waiting_on_asset_keys |->
                                  waiting_on(call.rule, q, k)]}
                ELSE /\ k \in call.result.true_subset
                            <=> k \in {e.partition_key : e \in q.previous}
                     /\ data(k) = {e \in q.previous : e.partition_key = k}

C30_Witness ==
    /\ call.op = "waiting_on"
    /\ {e.partition_key : e \in call.q.previous} = {1, 2}
    /\ call.q.candidates_not_evaluated_on_previous_tick_subset = {}
    /\ call.q.candidate_parent_has_or_will_update_subset = {1}
    /\ waiting_on(call.rule, call.q, 1) = {}
    /\ waiting_on(call.rule, call.q, 2) = {}
    /\ call.result.true_subset = {2}

(* C31: a partition skipped on the previous tick that has since been       *)
(* materialized, requested or discarded does not inherit its previous      *)
(* status: it is in the true subset only if it is examined on this tick    *)
(* and the rule's condition holds for it.                                  *)
C31_HandledSinceNotInherited ==
    call.op = "waiting_on" =>
        \A e \in call.q.previous :
            (/\ e.partition_key \in
                    call.q.materialized_requested_or_discarded_since_previous_tick_subset
             /\ e.partition_key \in call.result.true_subset)
                => /\ e.partition_key \in subset_to_evaluate(call.q)
                   /\ waiting_on(call.rule, call.q, e.partition_key) # {}

(* the evaluation data of the partition in the result of the call *)
DataOf(k) ==
    {e \in call.result.subsets_with_metadata : e.partition_key = k}

(* C32: a candidate examined by the parent-missing rule is skipped exactly *)
(* when one of its parents that will not be materialized on this tick has  *)
(* no record and is not of a non-observable source; parents that will be   *)
(* materialized and non-observable sources cause no skip, and the data     *)
(* lists exactly the keys of the missing parents.                          *)
C32_SkippedOnMissingParent ==
    (call.op = "waiting_on" /\ call.rule.class = "SkipOnParentMissingRule") =>
        LET q == call.q
            missing(k) ==
                {parent \in get_parents_partitions(k) :
                     /\ parent \notin q.will_update
                     /\ parent \notin q.has_materialization_or_observation
                     /\ ~(parent[1] \in q.is_source
                          /\ parent[1] \notin q.is_observable)}
        IN  \A k \in subset_to_evaluate(q) :
                /\ k \in call.result.true_subset <=> missing(k) # {}
                /\ DataOf(k) =
                       IF missing(k) = {} THEN {}
                       ELSE {[partition_key |-> k,
                              waiting_on_asset_keys |->
                                  {parent[1] : parent \in missing(k)}]}

C32_Witness ==
    /\ call.op = "waiting_on" /\ call.rule.class = "SkipOnParentMissingRule"
    /\ 1 \in subset_to_evaluate(call.q)
    /\ call.q.has_materialization_or_observation
           \cap get_parents_partitions(1) = {}
    /\ call.q.is_observable = {}
    /\ call.q.will_update = {}
    /\ DataOf(1) = {[partition_key |-> 1, waiting_on_asset_keys |-> {"B"}]}

(* C33: a candidate examined by the parent-outdated rule is skipped        *)
(* exactly when its parents that will not be materialized on this tick and *)
(* whose relationship is not ignorable for outdatedness have some outdated *)
(* ancestor; the evaluation data is the union of their outdated ancestors. *)
C33_SkippedOnOutdatedAncestors ==
    (call.op = "waiting_on" /\ call.rule.class = "SkipOnParentOutdatedRule") =>
        LET q == call.q
            ancestors(k) ==
                UNION {q.get_outdated_ancestors[parent] : parent \in
                           {p \in get_parents_partitions(k) :
                                /\ p \notin q.will_update
                                /\ p[1] \notin q.ignorable_for_outdated}}
        IN  \A k \in subset_to_evaluate(q) :
                /\ k \in call.result.true_subset <=> ancestors(k) # {}
                /\ DataOf(k) =
                       IF ancestors(k) = {} THEN {}
                       ELSE {[partition_key |-> k,
                              waiting_on_asset_keys |-> ancestors(k)]}

C33_Witness ==
    /\ call.op = "waiting_on" /\ call.rule.class = "SkipOnParentOutdatedRule"
    /\ subset_to_evaluate(call.q) = {1, 2}
    /\ call.q.ignorable_for_outdated = {"A"}
    /\ call.q.will_update = {}
    /\ call.q.get_outdated_ancestors[<<"A", 1>>] # {}
    /\ call.q.get_outdated_ancestors[<<"B", 1>>] = {}
    /\ call.q.get_outdated_ancestors[<<"X", 1>>] # {}
    /\ call.result.true_subset = {2}

----------------------------------------------------------------------------
(* Further properties of the run-tag filter *)

(* C34: without required tags the filter returns its input; with them its  *)
(* result is a subset of the input that holds a partition that will update *)
(* exactly when the required tags are among the auto-materialize tag and   *)
(* the daemon's run tags, and a partition that will not update exactly     *)
(* when the run of its latest record carries the required tags.            *)
C34_PassesByRunTags ==
    (call.op = "passes" /\ ~call.result.raised) =>
        LET q == call.q
            required == call.filter.latest_run_required_tags
        IN  IF required = NoTags
            THEN call.result.value = q.asset_partitions
            ELSE /\ call.result.value \subseteq q.asset_partitions
                 /\ \A ap \in q.asset_partitions :
                        ap \in call.result.value <=>
                            IF ap \in q.will_update
                            THEN required.items \subseteq
                                     ({AUTO_MATERIALIZE_TAG}
                                      \cup q.auto_materialize_run_tags)
                            ELSE required.items \subseteq
                                     q.run_tags[q.latest_run[ap]]

C34_Witness ==
    /\ call.op = "passes" /\ ~call.result.raised
    /\ call.filter.latest_run_required_tags = Tags({"team=t"})
    /\ call.q.asset_partitions \cap call.q.will_update # {}
    /\ call.result.value # {}
    /\ call.result.value \cap call.q.will_update = {}

(* C35: one call of the filter looks runs up at most once, for all the     *)
(* latest runs of the input partitions that will not update together, and  *)
(* not at all when every input partition will update or the input is empty *)
C35_OneLookup ==
    call.op = "passes" =>
        LET q == call.q
            updated == q.asset_partitions \ q.will_update
        IN  /\ Len(call.result.lookups) <= 1
            /\ Len(call.result.lookups) = 1 =>
                   call.result.lookups[1] = {q.latest_run[ap] : ap \in updated}
            /\ updated = {} => call.result.lookups = <<>>

C35_Witness ==
    /\ call.op = "passes"
    /\ Len(call.result.lookups) = 1
    /\ Cardinality(call.result.lookups[1]) > 1
    /\ ~call.result.raised

----------------------------------------------------------------------------
(* Further properties of rules and their snapshots *)

(* the two rules of the call have the same snapshot *)
SameSnapshot ==
    /\ call.snapshot_a.class_name = call.snapshot_b.class_name
    /\ call.snapshot_a.decision_type = call.snapshot_b.decision_type
    /\ call.snapshot_a.description = call.snapshot_b.description

(* C36: two rules with the same snapshot (class name, description,         *)
(* decision type) are equal: rules that differ in a configuration field    *)
(* have different snapshots.                                               *)
C36_SnapshotIdentifiesRule ==
    (call.op = "eq" /\ SameSnapshot) => call.result

----------------------------------------------------------------------------
(* Further properties of the missing rule on a root entity, ticks observed *)

(* C37: a partition requested on an earlier tick is never again in the     *)
(* missing rule's true subset, whether or not it was materialized, and the *)
(* carried handled subset only grows from tick to tick.                    *)
C37_RequestedNeverMissingAgain ==
    [][(pc' = "evaluated" /\ policy.has_missing /\ is_root) =>
          /\ Disjoint(history.requested, prev'.missing_true)
          /\ (prev.exists /\ prev.extra_state.has) =>
                 prev.extra_state.value \subseteq prev'.extra_state.value]_vars

C37_Witness ==
    /\ pc = "evaluated" /\ policy.has_missing /\ is_root
    /\ \E k \in (history.requested \ prev.requested)
                    \cap prev.materialize_candidates :
           /\ k \notin materialized
           /\ k \notin prev.missing_true

----------------------------------------------------------------------------
(* Further properties of the not-all-parents-updated rule *)

(* C38: a candidate skipped by the rule without                            *)
(* require_update_for_all_parent_partitions is also skipped, on the same   *)
(* answers, by the rule with it.                                           *)
C38_AllPartitionsAtLeastAsStrict ==
    (/\ call.op = "non_updated_parent_keys"
     /\ ~call.rule.require_update_for_all_parent_partitions
     /\ call.skipped) =>
        non_updated_parent_keys(
            [require_update_for_all_parent_partitions |-> TRUE], call.q) # {}

----------------------------------------------------------------------------
(* Further properties of the cron rule *)

(* C39: a partition the cron rule newly selects for a missed cron tick is  *)
(* in the true subset even if it was materialized, requested or discarded  *)
(* since the previous tick; only a partition carried from the previous     *)
(* tick's true subset, and not newly selected, is removed for that.        *)
C39_NewlySelectedNotExcluded ==
    call.op = "cron_evaluate" =>
        LET handled ==
                call.ctx.materialized_requested_or_discarded_since_previous_tick_subset
        IN  /\ call.new \subseteq call.result
            /\ \A k \in call.ctx.previous_true_subset
                            \cap call.ctx.partitions_def.keys :
                   k \notin call.result <=> (k \in handled /\ k \notin call.new)

C39_Witness ==
    /\ call.op = "cron_evaluate"
    /\ ~call.rule.all_partitions
    /\ \E k \in call.new \cap call.ctx.previous_true_subset :
           /\ k \in call.ctx.materialized_requested_or_discarded_since_previous_tick_subset
           /\ k \in call.result
    /\ \E k \in call.ctx.previous_true_subset \ call.new :
           /\ k \in call.ctx.materialized_requested_or_discarded_since_previous_tick_subset
           /\ k \notin call.result

----------------------------------------------------------------------------
(* Properties of sling_assets *)

(* C40: sling_assets declares one output per stream: distinct streams have *)
(* distinct output names, and there are as many outputs as streams.        *)
C40_OneOutputPerStream ==
    call.op = "sling_assets" =>
        LET streams == get_streams_from_replication(call.replication)
        IN  /\ \A i, j \in DOMAIN streams :
                   streams[i] # streams[j] =>
                       sling_stream_to_output_name(streams[i])
                           # sling_stream_to_output_name(streams[j])
            /\ Cardinality(DOMAIN call.result) = Len(call.replication)

============================================================================
